---- MODULE Spec2Model ----
(***************************************************************************)
(* Valuation engine of gmm-tools: the two-tier record matcher, the sanity  *)
(* average and the orchestrator get_estimated_value                        *)
(* (backend/app/services/pricing_service.py), over the sales_history table *)
(* (backend/app/models/sales_history.py) and its two writers               *)
(* (backend/seed_db.py, backend/app/api/purchases.py).                     *)
(*                                                                         *)
(* Identifiers are sequences of one-character strings, so that the trigram *)
(* similarity of pg_trgm is computed and not assumed.  Prices are whole    *)
(* currency units; an estimate is an exact fraction <<num, den>> in lowest *)
(* terms, and the absent estimate (Python None) is <<>>.                   *)
(*                                                                         *)
(* Around the engine: the verdict (calculate_profit_loss), the result      *)
(* cache (backend/app/redis_client.py, backend/app/api/cache.py) and the   *)
(* two request handlers (backend/app/api/analyze.py and bulk_analyze.py),  *)
(* a request being a record in reqs that moves from one await to the next. *)
(* Spec is the engine over its table, SpecEst the estimator alone,         *)
(* SpecVerdict the verdict alone, SpecApi one request at a time with the   *)
(* cache, purchases and failures, SpecCache the same with the clock and    *)
(* the clearing of the cache, SpecBatch the items of a batch on their      *)
(* shared session, SpecPair concurrent single requests.                    *)
(***************************************************************************)
EXTENDS Integers, Sequences, FiniteSets, TLC

\* ------------------------------------------------------------------ values

\* Python None for an optional year or grade (both are >= 0 when present).
NoneNum == -1
\* Python None for an optional grading company.
NoneStr == "<None>"
\* Python None returned by calculate_sanity_average.
NoneValue == <<>>

\* pricing_service.py:91 and :146, the default of the limit parameter; the
\* orchestrator never passes another one.
Limit == 10

\* pricing_service.py:17 and pg_trgm.similarity_threshold: 0.3 = 3 / 10.
SIMILARITY_THRESHOLD_NUM == 3
SIMILARITY_THRESHOLD_DEN == 10

\* ------------------------------------------------------------------ bounds

\* Longest price list handed to the estimator in SpecEst.
MaxPrices == 5
\* Number of create_purchase calls in a behaviour.
MaxPurchases == 1

\* ------------------------------------------------------------------ helpers

RECURSIVE Sum(_)
\* Python sum(): left fold of + over the list.
Sum(s) == IF s = <<>> THEN 0 ELSE Sum(SubSeq(s, 1, Len(s) - 1)) + s[Len(s)]

RECURSIVE Gcd(_, _)
Gcd(a, b) == IF b = 0 THEN a ELSE Gcd(b, a % b)

\* The exact quotient n / d (d > 0, n >= 0) in lowest terms.
Fraction(n, d) == LET g == Gcd(n, d) IN <<n \div g, d \div g>>

RECURSIVE Insert(_, _)
\* Insert x into the ascending list s.
Insert(x, s) ==
  IF s = <<>> THEN <<x>>
  ELSE IF x <= Head(s) THEN <<x>> \o s
  ELSE <<Head(s)>> \o Insert(x, Tail(s))

RECURSIVE sorted(_)
\* Python sorted(): ascending order.
sorted(s) == IF s = <<>> THEN <<>> ELSE Insert(Head(s), sorted(Tail(s)))

\* ------------------------------------------------------------------ estimator

\* sum(xs) / len(xs)
Mean(xs) == Fraction(Sum(xs), Len(xs))

\* pricing_service.py:78, sorted_prices[1:-1]
Trim(sorted_prices) == SubSeq(sorted_prices, 2, Len(sorted_prices) - 1)

\* Mutant: an empty list gives 0 and not None.
calculate_sanity_average_ZeroForEmpty(prices) ==
  IF prices = <<>> THEN Fraction(0, 1)
  ELSE IF Len(prices) < 3 THEN Mean(prices)
  ELSE Mean(Trim(sorted(prices)))

\* Mutant: the threshold is one too high, `len(prices) <= 3`.
calculate_sanity_average_Over3(prices) ==
  IF prices = <<>> THEN NoneValue
  ELSE IF Len(prices) <= 3 THEN Mean(prices)
  ELSE Mean(Trim(sorted(prices)))

\* Mutant: the list is trimmed as it came, without sorting.
calculate_sanity_average_NoSort(prices) ==
  IF prices = <<>> THEN NoneValue
  ELSE IF Len(prices) < 3 THEN Mean(prices)
  ELSE Mean(Trim(prices))

\* pricing_service.py:45-81
calculate_sanity_average(prices) ==
  IF prices = <<>> THEN NoneValue
  ELSE IF Len(prices) < 3 THEN Mean(prices)
  ELSE Mean(Trim(sorted(prices)))

\* ------------------------------------------------------------------ similarity

\* pg_trgm splits a text into words at every non-alphanumeric character; a
\* normalized identifier holds only [a-z0-9-].
Separators == {"-", " "}

RECURSIVE SplitWords(_, _)
\* The words of s, cur being the word read so far.
SplitWords(s, cur) ==
  IF s = <<>> THEN (IF cur = <<>> THEN {} ELSE {cur})
  ELSE IF Head(s) \in Separators
       THEN (IF cur = <<>> THEN {} ELSE {cur}) \cup SplitWords(Tail(s), <<>>)
       ELSE SplitWords(Tail(s), Append(cur, Head(s)))

\* The trigrams of one word: two blanks are put before it and one after.
WordTrigrams(w) ==
  LET p == <<" ", " ">> \o w \o <<" ">>
  IN {SubSeq(p, i, i + 2) : i \in 1..(Len(p) - 2)}

Trigrams(s) == UNION {WordTrigrams(w) : w \in SplitWords(s, <<>>)}

\* pricing_service.py:178, similarity(player_id, :player_id): shared trigrams
\* over all trigrams, as the fraction [num, den]; 0 when either text has none.
similarity(a, b) ==
  LET ta == Trigrams(a)
      tb == Trigrams(b)
  IN IF ta = {} \/ tb = {} THEN [num |-> 0, den |-> 1]
     ELSE [num |-> Cardinality(ta \cap tb), den |-> Cardinality(ta \cup tb)]

\* pricing_service.py:167, player_id % :player_id: the similarity reaches the
\* threshold.
SimilarTo(a, b) ==
  LET s == similarity(a, b)
  IN s.num * SIMILARITY_THRESHOLD_DEN >= SIMILARITY_THRESHOLD_NUM * s.den

\* x is strictly more similar than y (both fractions).
SimGreater(x, y) == x.num * y.den > y.num * x.den

\* ------------------------------------------------------------------ identifiers

\* Python None for an optional text (Optional[str] read as characters).
NoText == <<NoneStr>>

UpperCase ==
  <<"A", "B", "C", "D", "E", "F", "G", "H", "I", "J", "K", "L", "M",
    "N", "O", "P", "Q", "R", "S", "T", "U", "V", "W", "X", "Y", "Z">>
LowerCase ==
  <<"a", "b", "c", "d", "e", "f", "g", "h", "i", "j", "k", "l", "m",
    "n", "o", "p", "q", "r", "s", "t", "u", "v", "w", "x", "y", "z">>
Digits == {"0", "1", "2", "3", "4", "5", "6", "7", "8", "9"}
Whitespace == {" ", "\t", "\n", "\r"}
SlugChars == {LowerCase[i] : i \in 1..Len(LowerCase)} \cup Digits \cup {"-"}

\* str.lower() on one character.
LowerChar(c) ==
  IF \E i \in 1..Len(UpperCase) : UpperCase[i] = c
  THEN LowerCase[CHOOSE i \in 1..Len(UpperCase) : UpperCase[i] = c]
  ELSE c

RECURSIVE SubRuns(_, _, _)
\* re.sub(r'X+', '-', s) for a character class X: every maximal run of
\* characters of X becomes one hyphen.
SubRuns(s, class, inRun) ==
  IF s = <<>> THEN <<>>
  ELSE IF Head(s) \in class
       THEN (IF inRun THEN <<>> ELSE <<"-">>) \o SubRuns(Tail(s), class, TRUE)
       ELSE <<Head(s)>> \o SubRuns(Tail(s), class, FALSE)

RECURSIVE LStrip(_)
LStrip(s) == IF s # <<>> /\ Head(s) = "-" THEN LStrip(Tail(s)) ELSE s

RECURSIVE RStrip(_)
RStrip(s) ==
  IF s # <<>> /\ s[Len(s)] = "-" THEN RStrip(SubSeq(s, 1, Len(s) - 1)) ELSE s

\* Mutant: the hyphens at the ends are kept.
slugify_NoStrip(text) ==
  IF text = NoText \/ text = <<>> THEN <<>>
  ELSE LET lowered == [i \in 1..Len(text) |-> LowerChar(text[i])]
           hyphened == SubRuns(lowered, Whitespace, FALSE)
           kept == SelectSeq(hyphened, LAMBDA c : c \in SlugChars)
       IN SubRuns(kept, {"-"}, FALSE)

\* Mutant: the hyphens are collapsed before the other characters are removed.
slugify_CollapseFirst(text) ==
  IF text = NoText \/ text = <<>> THEN <<>>
  ELSE LET lowered == [i \in 1..Len(text) |-> LowerChar(text[i])]
           hyphened == SubRuns(lowered, Whitespace, FALSE)
           collapsed == SubRuns(hyphened, {"-"}, FALSE)
           kept == SelectSeq(collapsed, LAMBDA c : c \in SlugChars)
       IN RStrip(LStrip(kept))

\* slugify.py:10-59
slugify(text) ==
  IF text = NoText \/ text = <<>> THEN <<>>
  ELSE LET lowered == [i \in 1..Len(text) |-> LowerChar(text[i])]
           hyphened == SubRuns(lowered, Whitespace, FALSE)
           kept == SelectSeq(hyphened, LAMBDA c : c \in SlugChars)
           collapsed == SubRuns(kept, {"-"}, FALSE)
       IN RStrip(LStrip(collapsed))

\* ------------------------------------------------------------------ store data

\* Normalized identifiers used by the records and the queries.
MJ == <<"m", "j">>
MJX == <<"m", "j", "x">>
MK == <<"m", "k">>
ZZ == <<"z", "z">>
TOPPS == <<"t">>
PANINI == <<"p">>
BASE == <<"b", "a", "s", "e">>
REFRACTOR == <<"r">>

\* A row of sales_history without its primary key (sales_history.py:41-55).
Row(p, b, v, y, g, gr, pr, at) ==
  [player_id |-> p, brand_id |-> b, variation_id |-> v, year |-> y,
   grade |-> g, grader |-> gr, price |-> pr, sold_at |-> at]

\* A record of the data file seed_db.py reads (seed_db.py:90).
Record(player_name, brand, variation, year, grade, grader, price, sold_at) ==
  [player_name |-> player_name, brand |-> brand, variation |-> variation,
   year |-> year, grade |-> grade, grader |-> grader, price |-> price,
   sold_at |-> sold_at]

\* seed_db.py:107-134: the three names are slugified, the rest is copied.
transform_record(record) ==
  Row(slugify(record.player_name), slugify(record.brand),
      slugify(record.variation), record.year, record.grade, record.grader,
      record.price, record.sold_at)

\* The data file: eleven sales of one card, with years, grades, graders and
\* prices that differ and sold-at times that tie at both ends, followed by
\* sales of other cards; the names are written as on the cards.
CardSoldAt == <<1, 1, 2, 3, 4, 5, 6, 7, 8, 9, 9>>
CardPrice == <<80, 100, 120, 100, 80, 100, 100, 80, 80, 100, 60>>
CardRow(i) ==
  Record(<<"M", "J">>, <<"T">>, <<"B", "a", "s", "e">>,
         IF i % 2 = 1 THEN 2021 ELSE 2020,
         IF i % 3 = 0 THEN 0 ELSE 10,
         IF i % 4 < 2 THEN "PSA" ELSE "BGS",
         CardPrice[i], CardSoldAt[i])
OtherRows ==
  << Record(<<"M", "J", "X">>, <<"T">>, <<"B", "A", "S", "E">>, 2020, 10, "PSA", 200, 10),
     Record(<<"M", "K">>, <<" ", "T">>, <<"b", "a", "s", "e">>, 2020, 10, "PSA", 300, 10),
     Record(<<"M", ".", "J">>, <<"P">>, <<"B", "a", "s", "e">>, 2020, 10, "PSA", 400, 5),
     Record(<<"m", "j">>, <<"T">>, <<"R">>, 2020, 10, "PSA", 500, 3),
     Record(<<"Z", "Z">>, <<"T">>, <<"B", "a", "s", "e">>, 2021, 0, "BGS", 50, 3),
     Record(<<"M", "J", "X", " ">>, <<"T">>, <<"B", "a", "s", "e">>, 2021, 0, "", 70, 2) >>

\* The rows seed_db.py makes of the data file (seed_db.py:192-203).
SeedData ==
  [i \in 1..(Len(CardSoldAt) + Len(OtherRows)) |->
     transform_record(IF i <= Len(CardSoldAt) THEN CardRow(i)
                      ELSE OtherRows[i - Len(CardSoldAt)])]

\* Bodies posted to POST /purchases (purchases.py:15-32) with the identifiers
\* of an analysis: the fields that reach sales_history; the last one leaves
\* the grader out.
PurchaseInputs ==
  { Row(MJ, TOPPS, BASE, 2020, 0, "PSA", 90, 0),
    Row(MJX, TOPPS, BASE, 2021, 10, "BGS", 110, 0),
    Row(MK, TOPPS, REFRACTOR, 2020, 10, "PSA", 130, 0),
    Row(MJ, TOPPS, BASE, 2020, 10, NoneStr, 150, 0) }

\* The match queries get_estimated_value is called with
\* (pricing_service.py:194-202).
Queries ==
  [player_id : {MJ, MJX}, brand_id : {TOPPS, PANINI},
   variation_id : {BASE, REFRACTOR}, year : {NoneNum, 2020},
   grade : {NoneNum, 0}, grader : {NoneStr, "", "PSA"}]

\* ------------------------------------------------------------------ state

VARIABLES
  store,            \* the rows of sales_history, each with its id
  next_id,          \* the next value of the autoincrement primary key
  now,              \* datetime.now(): the clock read by create_purchase
  seeded,           \* seed_db.py has run
  purchases,        \* number of create_purchase calls so far
  pc,               \* where the call of get_estimated_value stands
  query,            \* the arguments of that call
  t1_result,        \* what query_tier1_exact_match returned to it
  t1_error,         \* the Tier 1 query raised inside query_tier1_exact_match
  t2_called,        \* query_tier2_fuzzy_match was called
  t2_result,        \* what query_tier2_fuzzy_match returned
  t2_error,         \* the Tier 2 query raised inside query_tier2_fuzzy_match
  prices,           \* the list handed to calculate_sanity_average
  estimated_value,  \* what calculate_sanity_average returned
  result            \* the PricingResult returned

VARIABLES
  listing_price,    \* the asking price handed to calculate_profit_loss
  profit_loss,      \* the first component of what it returned
  verdict,          \* the second component of what it returned
  cache,            \* the keys Redis holds, each with its text and expiry time
  redis,            \* redis_client: "none" before init_redis, "ok", or "error"
  db_up,            \* the database answers queries
  reqs,             \* the requests and batch items under way, by slot
  batch,            \* the call of analyze_bulk_listings under way
  last_set          \* per key, the last set_cached_value that returned True

VARIABLES
  raw_text,         \* the argument of a call of slugify
  slug,             \* what that call returned
  retry             \* a call of parse_listing_title_with_retry and its end

vars ==
  <<store, next_id, now, seeded, purchases, pc, query, t1_result, t1_error,
    t2_called, t2_result, t2_error, prices, estimated_value, result,
    listing_price, profit_loss, verdict, cache, redis, db_up, reqs, batch,
    last_set, raw_text, slug, retry>>

storeVars == <<store, next_id, now, seeded, purchases>>
callVars ==
  <<pc, query, t1_result, t1_error, t2_called, t2_result, t2_error, prices,
    estimated_value, result>>
verdictVars == <<listing_price, profit_loss, verdict>>
cacheVars == <<cache, redis, last_set>>
utilVars == <<raw_text, slug, retry>>
apiVars == <<verdictVars, cacheVars, db_up, reqs, batch, utilVars>>

\* The time of the first purchase: later than every seeded sale.
ClockStart == 1 + Len(SeedData)

\* No PricingResult yet.
NoResult == <<>>

\* No call of get_estimated_value under way.
NoQuery == <<>>

\* ------------------------------------------------------------------ writers

\* The row as stored, with its primary key.
WithId(row, id) == [id |-> id] @@ row

\* sales_history.py:44-55: every column is nullable=False.
HasNull(row) ==
  \/ row.grader = NoneStr
  \/ row.year = NoneNum
  \/ row.grade = NoneNum

\* seed_db.py:160-224: clear the table when asked to, then insert the rows of
\* the data file with the sold_at they carry.
seed_database(clear_existing) ==
  /\ ~seeded
  /\ store' = (IF clear_existing THEN {} ELSE store)
                \cup {WithId(SeedData[i], next_id + i - 1) : i \in 1..Len(SeedData)}
  /\ next_id' = next_id + Len(SeedData)
  /\ seeded' = TRUE
  /\ UNCHANGED <<now, purchases>>
  /\ UNCHANGED callVars
  /\ UNCHANGED apiVars

\* purchases.py:35-78: the sale is inserted with sold_at = now; a body that
\* leaves a column of sales_history out makes the commit fail and nothing is
\* inserted.
create_purchase(purchase) ==
  /\ purchases < MaxPurchases
  /\ purchases' = purchases + 1
  /\ now' = now + 1
  /\ IF HasNull(purchase)
     THEN UNCHANGED <<store, next_id>>
     ELSE /\ store' = store \cup {WithId([purchase EXCEPT !.sold_at = now], next_id)}
          /\ next_id' = next_id + 1
  /\ UNCHANGED seeded
  /\ UNCHANGED callVars
  /\ UNCHANGED apiVars

\* ------------------------------------------------------------------ matcher

\* Mutant: `if grader is not None`, so that "" filters.
Truthy_NotNone(s) == s # NoneStr

\* Python truth value of an Optional[str]: None and "" are false.
Truthy(s) == s # NoneStr /\ s # ""

RECURSIVE OrderByLimit(_, _, _)
\* ORDER BY ... LIMIT n: every list of the first n rows in an order that
\* agrees with before (a set of pairs <<x, y>>, x sorting before y); rows
\* that tie come in any order, as the database gives no order among them.
OrderByLimit(rows, before, n) ==
  IF rows = {} \/ n = 0 THEN {<<>>}
  ELSE UNION { {<<r>> \o rest : rest \in OrderByLimit(rows \ {r}, before, n - 1)} :
               r \in {x \in rows : \A y \in rows : <<y, x>> \notin before} }

\* pricing_service.py:111-124, the WHERE clause of Tier 1.
Tier1Where(r, q) ==
  /\ r.player_id = q.player_id
  /\ r.brand_id = q.brand_id
  /\ r.variation_id = q.variation_id
  /\ (q.grade # NoneNum => r.grade = q.grade)
  /\ (Truthy(q.grader) => r.grader = q.grader)

\* Mutant: ORDER BY sold_at, the oldest sale first.
Tier1Before_Asc(x, y) == x.sold_at < y.sold_at

\* pricing_service.py:127, ORDER BY sold_at DESC.
Tier1Before(x, y) == x.sold_at > y.sold_at

\* Mutant: the Tier 1 query without its LIMIT.
Tier1Rows_NoLimit(db, q, limit) ==
  LET rows == {r \in db : Tier1Where(r, q)}
  IN OrderByLimit(rows, {xy \in rows \X rows : Tier1Before(xy[1], xy[2])},
                  Cardinality(rows))

\* pricing_service.py:111-134: the lists the Tier 1 query can return.
Tier1Rows(db, q, limit) ==
  LET rows == {r \in db : Tier1Where(r, q)}
  IN OrderByLimit(rows, {xy \in rows \X rows : Tier1Before(xy[1], xy[2])}, limit)

\* Mutant: the handler logs and raises again.
Tier1Except_Reraise == [raised |-> TRUE, error |-> TRUE, sales |-> <<>>]

\* pricing_service.py:136-138: the handler of query_tier1_exact_match.
Tier1Except == [raised |-> FALSE, error |-> TRUE, sales |-> <<>>]

\* pricing_service.py:84-138: the outcomes of one call, the query either
\* executing or raising.
query_tier1_exact_match(db, q, limit) ==
  {[raised |-> FALSE, error |-> FALSE, sales |-> rows] : rows \in Tier1Rows(db, q, limit)}
    \cup {Tier1Except}

\* Mutant: the grade filter of Tier 1 copied into Tier 2.
Tier2Where_Grade(r, q) ==
  /\ SimilarTo(r.player_id, q.player_id)
  /\ r.brand_id = q.brand_id
  /\ (q.year # NoneNum => r.year = q.year)
  /\ (q.grade # NoneNum => r.grade = q.grade)

\* pricing_service.py:165-174, the WHERE clause of Tier 2.
Tier2Where(r, q) ==
  /\ SimilarTo(r.player_id, q.player_id)
  /\ r.brand_id = q.brand_id
  /\ (q.year # NoneNum => r.year = q.year)

\* Mutant: the two ORDER BY keys swapped, recency before similarity.
Tier2Before_RecencyFirst(x, y, q) ==
  LET sx == similarity(x.player_id, q.player_id)
      sy == similarity(y.player_id, q.player_id)
  IN \/ x.sold_at > y.sold_at
     \/ (x.sold_at = y.sold_at /\ SimGreater(sx, sy))

\* pricing_service.py:177-180, ORDER BY similarity DESC, sold_at DESC.
Tier2Before(x, y, q) ==
  LET sx == similarity(x.player_id, q.player_id)
      sy == similarity(y.player_id, q.player_id)
  IN \/ SimGreater(sx, sy)
     \/ (~SimGreater(sy, sx) /\ x.sold_at > y.sold_at)

\* pricing_service.py:165-187: the lists the Tier 2 query can return.
Tier2Rows(db, q, limit) ==
  LET rows == {r \in db : Tier2Where(r, q)}
  IN OrderByLimit(rows, {xy \in rows \X rows : Tier2Before(xy[1], xy[2], q)}, limit)

\* Mutant: the handler of the Tier 2 query lets the error out.
Tier2Except_Reraise == [raised |-> TRUE, error |-> TRUE, sales |-> <<>>]

\* pricing_service.py:189-191: the handler of query_tier2_fuzzy_match.
Tier2Except == [raised |-> FALSE, error |-> TRUE, sales |-> <<>>]

\* pricing_service.py:141-191
query_tier2_fuzzy_match(db, q, limit) ==
  {[raised |-> FALSE, error |-> FALSE, sales |-> rows] : rows \in Tier2Rows(db, q, limit)}
    \cup {Tier2Except}

\* ------------------------------------------------------------------ orchestrator

\* Mutant: sales_count counts the prices averaged, not the rows matched.
PricingResult_CountUsed(value, tier, sales) ==
  [estimated_value |-> value, match_tier |-> tier,
   sales_count |-> IF Len(sales) >= 3 THEN Len(sales) - 2 ELSE Len(sales),
   sales_data |-> sales]

\* pricing_service.py:20-33
PricingResult(value, tier, sales) ==
  [estimated_value |-> value, match_tier |-> tier, sales_count |-> Len(sales),
   sales_data |-> sales]

\* Mutant: fewer than three rows count as no match, `if len(sales) >= 3`.
HasSales_Enough(sales) == Len(sales) >= 3

\* pricing_service.py:237 and :250, `if sales:`.
HasSales(sales) == sales # <<>>

\* pricing_service.py:237-238: the tier reported after Tier 1 returned rows.
Tier1Label == "exact"

\* Mutant: the tier is set before the rows are looked at.
Tier2Label_AlwaysFuzzy(sales) == "fuzzy"

\* pricing_service.py:224 and :250-251: the tier reported after Tier 2.
Tier2Label(sales) == IF HasSales(sales) THEN "fuzzy" ELSE "none"

\* pricing_service.py:257, [float(sale.price) for sale in sales]
PricesOf(sales) == [i \in 1..Len(sales) |-> sales[i].price]

\* pricing_service.py:256-273: estimate and return.
Return(sales, tier) ==
  /\ prices' = PricesOf(sales)
  /\ estimated_value' = calculate_sanity_average(PricesOf(sales))
  /\ result' = PricingResult(calculate_sanity_average(PricesOf(sales)), tier, sales)
  /\ pc' = "done"

\* pricing_service.py:223-235: the call, up to the await of the Tier 1 query.
GetEstimatedValue(q) ==
  /\ pc = "idle"
  /\ pc' = "tier1"
  /\ query' = q
  /\ t1_result' = <<>>
  /\ t1_error' = FALSE
  /\ t2_called' = FALSE
  /\ t2_result' = <<>>
  /\ t2_error' = FALSE
  /\ prices' = <<>>
  /\ estimated_value' = NoneValue
  /\ result' = NoResult
  /\ UNCHANGED storeVars
  /\ UNCHANGED apiVars

\* pricing_service.py:228-248: Tier 1 answers; with rows the result is built
\* from them, without rows the Tier 2 query is awaited.
Tier1Step ==
  /\ pc = "tier1"
  /\ \E out \in query_tier1_exact_match(store, query, Limit) :
       /\ t1_result' = out.sales
       /\ t1_error' = out.error
       /\ IF out.raised
          THEN /\ pc' = "raised"
               /\ UNCHANGED <<t2_called, prices, estimated_value, result>>
          ELSE IF HasSales(out.sales)
          THEN /\ Return(out.sales, Tier1Label)
               /\ UNCHANGED t2_called
          ELSE /\ pc' = "tier2"
               /\ t2_called' = TRUE
               /\ UNCHANGED <<prices, estimated_value, result>>
  /\ UNCHANGED <<query, t2_result, t2_error>>
  /\ UNCHANGED storeVars
  /\ UNCHANGED apiVars

\* pricing_service.py:243-273: Tier 2 answers and the result is built.
Tier2Step ==
  /\ pc = "tier2"
  /\ \E out \in query_tier2_fuzzy_match(store, query, Limit) :
       /\ t2_result' = out.sales
       /\ t2_error' = out.error
       /\ IF out.raised
          THEN /\ pc' = "raised"
               /\ UNCHANGED <<prices, estimated_value, result>>
          ELSE Return(out.sales, Tier2Label(out.sales))
  /\ UNCHANGED <<query, t1_result, t1_error, t2_called>>
  /\ UNCHANGED storeVars
  /\ UNCHANGED apiVars

\* analyze.py:158-183: the caller takes the PricingResult and answers; the
\* locals of the call are gone.
Respond ==
  /\ pc = "done"
  /\ pc' = "idle"
  /\ t1_result' = <<>>
  /\ t1_error' = FALSE
  /\ t2_called' = FALSE
  /\ t2_result' = <<>>
  /\ t2_error' = FALSE
  /\ prices' = <<>>
  /\ estimated_value' = NoneValue
  /\ result' = NoResult
  /\ query' = NoQuery
  /\ UNCHANGED storeVars
  /\ UNCHANGED apiVars

\* ------------------------------------------------------------------ request layer: values

\* redis_client.py:17, the lifetime in seconds of a cache entry.
REDIS_DEFAULT_TTL == 3600

\* Number of steps of the clock in a behaviour.
MaxTicks == 3
\* Longest list of listings in a batch request.
MaxBatch == 2

\* The clock advances by half the default lifetime.
TickStep == REDIS_DEFAULT_TTL \div 2

\* One slot for each request or batch item that can be under way.
Slots == 1..MaxBatch

\* No response yet, no cached value found: Python None.
NoResponse == <<>>

\* ---- request validation (api/analyze.py, api/bulk_analyze.py)

\* analyze.py:36, bulk_analyze.py:48: min_length and max_length of title.
MIN_TITLE_LENGTH == 1
MAX_TITLE_LENGTH == 500

\* bulk_analyze.py:61: min_items and max_items of listings.
MIN_ITEMS == 1
MAX_ITEMS == 50

RECURSIVE LStripWs(_)
LStripWs(s) == IF s # <<>> /\ Head(s) \in Whitespace THEN LStripWs(Tail(s)) ELSE s

RECURSIVE RStripWs(_)
RStripWs(s) ==
  IF s # <<>> /\ s[Len(s)] \in Whitespace
  THEN RStripWs(SubSeq(s, 1, Len(s) - 1)) ELSE s

\* str.strip()
strip(s) == RStripWs(LStripWs(s))

\* The body did not validate: the framework answers 422 and the handler is
\* not called.
Rejected == [rejected |-> TRUE]

\* A request body: title is None or a text, listing_price a number.
Body(title, price) == [title |-> title, listing_price |-> price]

\* Mutant: the validator strips the title and lets an empty one through.
validate_title_NoCheck(v) == strip(v)

\* analyze.py:39-44, bulk_analyze.py:51-56: validate_title.
validate_title(v) == IF strip(v) = <<>> THEN Rejected ELSE strip(v)

\* analyze.py:34-44: the constraints of the fields are checked on the value
\* received, then validate_title runs on the title.
AnalyzeRequest(body) ==
  IF \/ body.title = NoText
     \/ Len(body.title) < MIN_TITLE_LENGTH
     \/ Len(body.title) > MAX_TITLE_LENGTH
     \/ ~(body.listing_price > 0)
     \/ validate_title(body.title) = Rejected
  THEN Rejected
  ELSE Body(validate_title(body.title), body.listing_price)

\* bulk_analyze.py:46-56
BulkListingItem(body) == AnalyzeRequest(body)

\* bulk_analyze.py:59-61: between one and fifty listings, each of them valid.
BulkAnalyzeRequest(bodies) ==
  IF \/ Len(bodies) < MIN_ITEMS
     \/ Len(bodies) > MAX_ITEMS
     \/ \E i \in 1..Len(bodies) : BulkListingItem(bodies[i]) = Rejected
  THEN Rejected
  ELSE [listings |-> [i \in 1..Len(bodies) |->
                        <<BulkListingItem(bodies[i]).title,
                          BulkListingItem(bodies[i]).listing_price>>]]

\* ---- parser (services/openai_service.py)

\* openai_service.py:20-47: the fields of ParsedCardData the pipeline reads.
ParsedCardData(player_name, brand, variation, year, grade, grading_company) ==
  [player_name |-> player_name, brand |-> brand, variation |-> variation,
   year |-> year, grade |-> grade, grading_company |-> grading_company]

\* The titles requests carry, already stripped (analyze.py:39-44).
TitleExact == <<"2", "0", "2", "0", " ", "T", " ", "M", ".", "J">>
TitleFuzzy == <<"T", " ", "M", "J", "X", " ", "2", "0", "2", "0">>
Titles == {TitleExact, TitleFuzzy}

\* openai_service.py:84-185: what the model extracts from a title, when it
\* answers; the same title gives the same fields.
Parse(title) ==
  IF title = TitleExact
  THEN ParsedCardData(<<"M", ".", "J">>, <<" ", "T">>, NoText, NoneNum, NoneNum, NoneStr)
  ELSE ParsedCardData(<<"M", "J", "X", " ">>, <<"T">>, <<>>, 2020, NoneNum, NoneStr)

\* analyze.py:132-147: the arguments of get_estimated_value made of the
\* parsed fields; `variation or "Base"` takes "Base" for None and for "".
QueryOf(parsed) ==
  [player_id |-> slugify(parsed.player_name),
   brand_id |-> slugify(parsed.brand),
   variation_id |-> slugify(IF parsed.variation = NoText \/ parsed.variation = <<>>
                            THEN <<"B", "a", "s", "e">> ELSE parsed.variation),
   year |-> parsed.year, grade |-> parsed.grade,
   grader |-> parsed.grading_company]

\* openai_service.py:190, the default of max_retries.
MAX_RETRIES == 2

\* What one call of parse_listing_title ends with (openai_service.py:84-185):
\* the parsed fields, a ValueError for an empty or invalid answer, or the
\* error of the API re-raised.
AttemptOutcomes == {"ok", "ValueError", "APIError"}

\* Mutant: the error of the first failed attempt is the one kept.
LastError_KeepFirst(last_error, e) == IF last_error = NoneStr THEN e ELSE last_error

\* openai_service.py:211-212, `last_error = e`.
LastError(last_error, e) == e

RECURSIVE RetryLoop(_, _, _, _, _)
\* openai_service.py:207-217: the loop from its iteration `attempt` on;
\* outcomes[k] is what the k-th call of parse_listing_title ends with. The
\* first call that returns ends the function; `raise last_error` after the
\* loop raises TypeError when there was no iteration.
RetryLoop(title, outcomes, max_retries, attempt, last_error) ==
  IF attempt >= max_retries + 1
  THEN [attempts |-> attempt, returned |-> NoResponse,
        raised |-> IF last_error = NoneStr THEN "TypeError" ELSE last_error]
  ELSE IF outcomes[attempt + 1] = "ok"
       THEN [attempts |-> attempt + 1, returned |-> Parse(title), raised |-> NoneStr]
       ELSE RetryLoop(title, outcomes, max_retries, attempt + 1,
                      LastError(last_error, outcomes[attempt + 1]))

\* openai_service.py:188-217
parse_listing_title_with_retry(title, outcomes, max_retries) ==
  RetryLoop(title, outcomes, max_retries, 0, NoneStr)

\* ---- cache key and cache text (redis_client.py)

\* hashlib.md5(...).hexdigest(): one digest for each text, no two texts of
\* the model sharing one.
MD5(identifier) == <<"md5", identifier>>

\* Mutant: the identifier is left out of the key.
generate_cache_key_PrefixOnly(prefix, identifier) == <<prefix, ":", MD5(<<>>)>>

\* redis_client.py:79-99
generate_cache_key(prefix, identifier) == <<prefix, ":", MD5(identifier)>>

\* json.dumps of a dict: the text, as its set of members "key": value.
json_dumps(value) == {<<k, value[k]>> : k \in DOMAIN value}

\* json.loads of the text of a dict.
json_loads(text) ==
  [k \in {m[1] : m \in text} |-> (CHOOSE m \in text : m[1] = k)[2]]

\* ---- verdict (services/pricing_service.py)

\* f"{x:.2f}" of a fraction x >= 0, in cents: the nearest cent, a tie going
\* to the even one.
Cents(x) ==
  LET q == (100 * x[1]) \div x[2]
      r == (100 * x[1]) % x[2]
  IN IF 2 * r > x[2] THEN q + 1
     ELSE IF 2 * r < x[2] THEN q
     ELSE IF q % 2 = 0 THEN q ELSE q + 1

\* abs() of a fraction.
Abs(x) == IF x[1] < 0 THEN <<-x[1], x[2]>> ELSE x

InsufficientData == "INSUFFICIENT DATA - No comparable sales found"
GoodDeal == "GOOD DEAL - Potential profit: $"
Overpriced == "OVERPRICED - Potential loss: $"
FairPrice == "FAIR PRICE - Listing matches market value"

\* A verdict text: its wording and the amount printed in it, in cents.
Verdict(text, amount) == [text |-> text, amount |-> amount]

\* Mutant: `if not estimated_value`, which takes 0.0 for absent.
calculate_profit_loss_Falsy(asking, estimate) ==
  IF estimate = NoneValue \/ estimate[1] = 0
  THEN [profit_loss |-> NoneValue, verdict |-> Verdict(InsufficientData, NoneNum)]
  ELSE LET pl == <<estimate[1] - asking * estimate[2], estimate[2]>>
       IN [profit_loss |-> pl,
           verdict |-> IF pl[1] > 0 THEN Verdict(GoodDeal, Cents(pl))
                       ELSE IF pl[1] < 0 THEN Verdict(Overpriced, Cents(Abs(pl)))
                       ELSE Verdict(FairPrice, NoneNum)]

\* pricing_service.py:276-308; the asking price is a whole number of
\* currency units, the estimate a fraction in lowest terms.
calculate_profit_loss(asking, estimate) ==
  IF estimate = NoneValue
  THEN [profit_loss |-> NoneValue, verdict |-> Verdict(InsufficientData, NoneNum)]
  ELSE LET pl == <<estimate[1] - asking * estimate[2], estimate[2]>>
       IN [profit_loss |-> pl,
           verdict |-> IF pl[1] > 0 THEN Verdict(GoodDeal, Cents(pl))
                       ELSE IF pl[1] < 0 THEN Verdict(Overpriced, Cents(Abs(pl)))
                       ELSE Verdict(FairPrice, NoneNum)]

\* No verdict yet.
NoVerdict == <<>>

\* ---- requests

\* A slot with no request in it.
IdleReq == [pc |-> "idle"]

\* No batch request under way.
NoBatch == [pc |-> "idle"]

\* No call of parse_listing_title_with_retry under way.
NoRetry == [pc |-> "idle"]

\* redis_client.py:20 and the handlers before any request: no Redis client,
\* nothing cached, no request under way.
ApiInit ==
  /\ listing_price = NoneNum
  /\ profit_loss = NoneValue
  /\ verdict = NoVerdict
  /\ cache = {}
  /\ redis = "none"
  /\ db_up = TRUE
  /\ reqs = [s \in Slots |-> IdleReq]
  /\ batch = NoBatch
  /\ last_set = {}
  /\ raw_text = NoText
  /\ slug = NoText
  /\ retry = NoRetry

\* ------------------------------------------------------------------ specification

\* init_db.py:94-140 creates an empty sales_history table.
Init ==
  /\ store = {}
  /\ next_id = 1
  /\ now = ClockStart
  /\ seeded = FALSE
  /\ purchases = 0
  /\ pc = "idle"
  /\ query = NoQuery
  /\ t1_result = <<>>
  /\ t1_error = FALSE
  /\ t2_called = FALSE
  /\ t2_result = <<>>
  /\ t2_error = FALSE
  /\ prices = <<>>
  /\ estimated_value = NoneValue
  /\ result = NoResult
  /\ ApiInit

Next ==
  \/ \E clear_existing \in BOOLEAN : seed_database(clear_existing)
  \/ \E purchase \in PurchaseInputs : create_purchase(purchase)
  \/ \E q \in Queries : GetEstimatedValue(q)
  \/ Tier1Step
  \/ Tier2Step
  \/ Respond

Spec == Init /\ [][Next]_vars

\* ------------------------------------------------------------------ matcher claims

\* The rows of a result list.
RowsOf(sales) == {sales[i] : i \in 1..Len(sales)}

\* The step in which the Tier 1 query executed and answered.
Tier1Answered == pc = "tier1" /\ pc' # "tier1" /\ ~t1_error'

\* The step in which the Tier 2 query executed and answered.
Tier2Answered == pc = "tier2" /\ pc' # "tier2" /\ ~t2_error'

\* A grade was supplied: any number, 0 included.
GradeSupplied(q) == q.grade # NoneNum

\* A grading authority was supplied: a non-empty code; the empty string names
\* no authority.
GraderSupplied(q) == q.grader # NoneStr /\ q.grader # ""

\* C1: Tier 2 is queried only after Tier 1 returned an empty list, and when
\* Tier 1 returned rows the estimate is made from exactly those rows, in that
\* order, with no Tier 2 row added.
C1_Tier2OnlyWhenTier1Empty ==
  /\ (t2_called => t1_result = <<>>)
  /\ (pc = "done" /\ t1_result # <<>> =>
        /\ ~t2_called
        /\ t2_result = <<>>
        /\ result.sales_data = t1_result
        /\ prices = [i \in 1..Len(t1_result) |-> t1_result[i].price])

\* C1 witness: Tier 1 returned rows while the store holds another row that
\* Tier 2 would accept and that is no less similar than the rows returned.
C1_Witness ==
  /\ pc = "done"
  /\ t1_result # <<>>
  /\ \E r \in store \ RowsOf(t1_result) :
       /\ r.brand_id = query.brand_id
       /\ SimilarTo(r.player_id, query.player_id)
       /\ \A x \in RowsOf(t1_result) :
            ~SimGreater(similarity(x.player_id, query.player_id),
                        similarity(r.player_id, query.player_id))

\* C2: the tier of a result is exact, fuzzy or none; exact exactly when Tier 1
\* returned a row, fuzzy exactly when Tier 1 returned none and Tier 2 returned
\* one, none exactly when both returned none.
C2_MatchTier ==
  pc = "done" =>
    /\ result.match_tier \in {"exact", "fuzzy", "none"}
    /\ (result.match_tier = "exact" <=> t1_result # <<>>)
    /\ (result.match_tier = "fuzzy" <=> (t1_result = <<>> /\ t2_result # <<>>))
    /\ (result.match_tier = "none" <=> (t1_result = <<>> /\ t2_result = <<>>))

\* C2 witness: Tier 1 executed and found nothing, Tier 2 found a row.
C2_Witness ==
  /\ pc = "done"
  /\ ~t1_error
  /\ t1_result = <<>>
  /\ t2_result # <<>>
  /\ result.match_tier = "fuzzy"

\* The rows Tier 1 has to choose from according to C3: equal player, brand and
\* variation, equal grade when one was supplied, equal grader when one was
\* supplied, and nothing else.
C3_Eligible ==
  {r \in store :
     /\ r.player_id = query.player_id
     /\ r.brand_id = query.brand_id
     /\ r.variation_id = query.variation_id
     /\ (GradeSupplied(query) => r.grade = query.grade)
     /\ (GraderSupplied(query) => r.grader = query.grader)}

\* C3: a Tier 1 answer holds only rows of the store with the query's player,
\* brand and variation, with the query's grade when a grade was supplied and
\* the query's grader when one was supplied; no other attribute filters: as
\* long as fewer than 10 rows qualify all of them are returned, whatever their
\* year and whatever their grade or grader when the query names none.
C3_Tier1Filter ==
  [][Tier1Answered =>
       /\ RowsOf(t1_result') \subseteq C3_Eligible
       /\ (Cardinality(C3_Eligible) <= 10 => RowsOf(t1_result') = C3_Eligible)]_vars

\* C3 witness: a query with year, grade and grader got a row of another year
\* while the store holds rows of its card with another grade and with
\* another grader.
C3_Witness ==
  /\ pc = "done"
  /\ ~t1_error
  /\ query.year # NoneNum
  /\ GradeSupplied(query)
  /\ GraderSupplied(query)
  /\ \E r \in RowsOf(t1_result) : r.year # query.year
  /\ \E r \in store :
       r.player_id = query.player_id /\ r.variation_id = query.variation_id
         /\ r.brand_id = query.brand_id /\ r.grade # query.grade
  /\ \E r \in store :
       r.player_id = query.player_id /\ r.variation_id = query.variation_id
         /\ r.brand_id = query.brand_id /\ r.grader # query.grader

\* C4: a Tier 1 answer lists distinct rows, most recent sale first, and at
\* most 10 of them; when more than 10 rows match it lists 10 and no row left
\* out was sold later than a row listed.
C4_Tier1OrderAndCap ==
  [][Tier1Answered =>
       LET res == t1_result'
           matching == {r \in store : Tier1Where(r, query)}
       IN /\ Len(res) <= 10
          /\ \A i, j \in 1..Len(res) : i < j =>
               res[i] # res[j] /\ res[i].sold_at >= res[j].sold_at
          /\ (Cardinality(matching) > 10 =>
                /\ Len(res) = 10
                /\ \A r \in matching \ RowsOf(res) :
                     \A x \in RowsOf(res) : x.sold_at >= r.sold_at)]_vars

\* C4 witness: more than 10 rows match and 10 were returned, one of the rows
\* left out being as recent as the last row returned.
C4_Witness ==
  /\ pc = "done"
  /\ Len(t1_result) = 10
  /\ \E r \in store \ RowsOf(t1_result) :
       Tier1Where(r, query) /\ r.sold_at = t1_result[10].sold_at

\* The rows Tier 2 has to choose from according to C5: the query's brand, a
\* player that passes the similarity test, the query's year when a year was
\* supplied, and nothing else.
C5_Eligible ==
  {r \in store :
     /\ r.brand_id = query.brand_id
     /\ SimilarTo(r.player_id, query.player_id)
     /\ (query.year # NoneNum => r.year = query.year)}

\* C5: a Tier 2 answer holds only rows of the store with the query's brand, a
\* similar player and, when a year was supplied, that year; grade, grader and
\* variation do not filter: as long as fewer than 10 rows qualify all of them
\* are returned.
C5_Tier2Filter ==
  [][Tier2Answered =>
       /\ RowsOf(t2_result') \subseteq C5_Eligible
       /\ (Cardinality(C5_Eligible) <= 10 => RowsOf(t2_result') = C5_Eligible)]_vars

\* C5 witness: a query with year, grade and grader got from Tier 2 a row of
\* another grade, a row of another grader, a row of another variation and a
\* row of another player.
C5_Witness ==
  /\ pc = "done"
  /\ ~t2_error
  /\ query.year # NoneNum
  /\ GradeSupplied(query)
  /\ GraderSupplied(query)
  /\ \E r \in RowsOf(t2_result) : r.grade # query.grade
  /\ \E r \in RowsOf(t2_result) : r.grader # query.grader
  /\ \E r \in RowsOf(t2_result) : r.variation_id # query.variation_id
  /\ \E r \in RowsOf(t2_result) : r.player_id # query.player_id
  /\ \E r \in store : r.brand_id = query.brand_id /\ r.year # query.year

\* The similarity of a row's player to the query's, with the query of the
\* state after the step.
C6_Sim(r) == similarity(r.player_id, query.player_id)

\* C6: a Tier 2 answer lists distinct rows by falling similarity, rows of
\* equal similarity most recent sale first, and at most 10 of them; when more
\* than 10 rows match it lists 10 and no row left out sorts before a row
\* listed.
C6_Tier2OrderAndCap ==
  [][Tier2Answered =>
       LET res == t2_result'
           matching == {r \in store : Tier2Where(r, query)}
           Later(x, y) ==
             \/ SimGreater(C6_Sim(x), C6_Sim(y))
             \/ (~SimGreater(C6_Sim(y), C6_Sim(x)) /\ x.sold_at > y.sold_at)
       IN /\ Len(res) <= 10
          /\ \A i, j \in 1..Len(res) : i < j =>
               res[i] # res[j] /\ ~Later(res[j], res[i])
          /\ (Cardinality(matching) > 10 =>
                /\ Len(res) = 10
                /\ \A r \in matching \ RowsOf(res) :
                     \A x \in RowsOf(res) : ~Later(r, x))]_vars

\* C6 witness: Tier 2 returned 10 rows of more than 10 that match; a less
\* similar row sold later stands behind a more similar one, two rows of equal
\* similarity stand most recent first, and a row left out ties with the last
\* row returned.
C6_Witness ==
  /\ pc = "done"
  /\ Len(t2_result) = 10
  /\ \E i, j \in 1..10 :
       /\ i < j
       /\ SimGreater(C6_Sim(t2_result[i]), C6_Sim(t2_result[j]))
       /\ t2_result[i].sold_at < t2_result[j].sold_at
  /\ \E i, j \in 1..10 :
       /\ i < j
       /\ C6_Sim(t2_result[i]) = C6_Sim(t2_result[j])
       /\ t2_result[i].sold_at > t2_result[j].sold_at
  /\ \E r \in store \ RowsOf(t2_result) :
       /\ Tier2Where(r, query)
       /\ C6_Sim(r) = C6_Sim(t2_result[10])
       /\ r.sold_at = t2_result[10].sold_at

\* C7: no call of get_estimated_value ends in an exception; a tier whose
\* query raised counts as having returned no row; after a Tier 1 failure
\* Tier 2 is queried; a Tier 2 failure after an empty Tier 1 gives the tier
\* none with no estimate.
C7_FailureIsNoRows ==
  /\ pc # "raised"
  /\ (t1_error => t1_result = <<>>)
  /\ (t2_error => t2_result = <<>>)
  /\ (t1_error /\ pc \in {"tier2", "done"} => t2_called)
  /\ (pc = "done" /\ t2_error =>
        /\ t1_result = <<>>
        /\ result.match_tier = "none"
        /\ result.sales_count = 0
        /\ result.estimated_value = NoneValue)

\* C7 witness: both queries raised over a seeded store and the call returned
\* the tier none.
C7_Witness ==
  /\ pc = "done"
  /\ seeded
  /\ t1_error
  /\ t2_error
  /\ result.match_tier = "none"

\* ------------------------------------------------------------------ estimator alone

\* The prices the estimator is tried on.
EstPrices == {10, 20, 50}

\* Every list of at most MaxPrices prices.
PriceLists == UNION {[1..n -> EstPrices] : n \in 0..MaxPrices}

\* A caller holds a list of prices and is about to call the estimator.
InitEst ==
  /\ store = {}
  /\ next_id = 1
  /\ now = ClockStart
  /\ seeded = FALSE
  /\ purchases = 0
  /\ pc = "estimate"
  /\ query = NoQuery
  /\ t1_result = <<>>
  /\ t1_error = FALSE
  /\ t2_called = FALSE
  /\ t2_result = <<>>
  /\ t2_error = FALSE
  /\ prices \in PriceLists
  /\ estimated_value = NoneValue
  /\ result = NoResult
  /\ ApiInit

\* pricing_service.py:258, estimated_value = calculate_sanity_average(prices)
Estimate ==
  /\ pc = "estimate"
  /\ pc' = "estimated"
  /\ estimated_value' = calculate_sanity_average(prices)
  /\ UNCHANGED <<query, t1_result, t1_error, t2_called, t2_result, t2_error,
                 prices, result>>
  /\ UNCHANGED storeVars
  /\ UNCHANGED apiVars

NextEst == Estimate

SpecEst == InitEst /\ [][NextEst]_vars

\* ------------------------------------------------------------------ estimator claims

\* The least and the greatest price of a non-empty list.
MinOf(xs) == CHOOSE m \in RowsOf(xs) : \A x \in RowsOf(xs) : m <= x
MaxOf(xs) == CHOOSE m \in RowsOf(xs) : \A x \in RowsOf(xs) : m >= x

\* The fraction v equals total / count.
IsQuotient(v, total, count) ==
  /\ v # NoneValue
  /\ v[2] > 0
  /\ v[1] * count = v[2] * total

\* C8: the estimate of an empty list is absent; the estimate of one price is
\* that price and the estimate of two prices is half their sum.
C8_SmallLists ==
  pc = "estimated" =>
    /\ (Len(prices) = 0 => estimated_value = NoneValue)
    /\ (Len(prices) = 1 => IsQuotient(estimated_value, prices[1], 1))
    /\ (Len(prices) = 2 => IsQuotient(estimated_value, prices[1] + prices[2], 2))

\* C8 witness: the estimate of [10, 20] is 15.
C8_Witness ==
  /\ pc = "estimated"
  /\ prices = <<10, 20>>
  /\ estimated_value = <<15, 1>>

\* C9: the estimate of n >= 3 prices is their sum less one smallest and one
\* greatest price, divided by n - 2; for three prices that is the middle one.
C9_TrimmedMean ==
  pc = "estimated" /\ Len(prices) >= 3 =>
    /\ IsQuotient(estimated_value,
                  Sum(prices) - MinOf(prices) - MaxOf(prices), Len(prices) - 2)
    /\ (Len(prices) = 3 =>
          \E i \in 1..3 :
            /\ estimated_value = <<prices[i], 1>>
            /\ \E j, k \in (1..3) \ {i} :
                 j # k /\ prices[j] <= prices[i] /\ prices[i] <= prices[k])

\* C9 witness: three prices, two of them tied at the minimum: one 10 is
\* dropped, the other is the estimate.
C9_Witness ==
  /\ pc = "estimated"
  /\ prices = <<10, 20, 10>>
  /\ estimated_value = <<10, 1>>

\* The list xs read in the order f (a permutation of its indices).
Permuted(xs, f) == [i \in 1..Len(xs) |-> xs[f[i]]]

\* C10: every reordering of the prices gives the same estimate.
C10_OrderIrrelevant ==
  pc = "estimated" =>
    \A f \in Permutations(1..Len(prices)) :
      calculate_sanity_average(Permuted(prices, f)) = estimated_value

\* C10 witness: an unsorted list of more than three prices whose ends are
\* not its extremes.
C10_Witness ==
  /\ pc = "estimated"
  /\ prices = <<20, 50, 10, 20>>
  /\ estimated_value = <<20, 1>>

\* ------------------------------------------------------------------ result claim

\* The rows of the tier that answered the call: those of Tier 1 when it
\* returned any, else those of Tier 2.
MatchedSales == IF t1_result # <<>> THEN t1_result ELSE t2_result

\* The call matched exactly three Tier 1 rows, priced 80, 100 and 120.
C11_Example ==
  /\ pc = "done"
  /\ Len(t1_result) = 3
  /\ {t1_result[i].price : i \in 1..3} = {80, 100, 120}

\* C11: the result of get_estimated_value carries the sanity average of the
\* prices of exactly the rows of the tier that succeeded, counts every such
\* row in sales_count (the two discarded by trimming included) and lists
\* them in sales_data in matched order; three exact rows priced 80, 100 and
\* 120 give the estimate 100, the tier exact and the count 3.
C11_ResultFields ==
  pc = "done" =>
    /\ result.sales_data = MatchedSales
    /\ result.sales_count = Len(MatchedSales)
    /\ prices = [i \in 1..Len(MatchedSales) |-> MatchedSales[i].price]
    /\ result.estimated_value = estimated_value
    /\ estimated_value = calculate_sanity_average(prices)
    /\ (C11_Example =>
          /\ result.estimated_value = <<100, 1>>
          /\ result.match_tier = "exact"
          /\ result.sales_count = 3)
    /\ (Len(MatchedSales) >= 3 =>
          IsQuotient(result.estimated_value,
                     Sum(prices) - MinOf(prices) - MaxOf(prices),
                     Len(MatchedSales) - 2))

C11_Witness ==
  /\ C11_Example
  /\ result.estimated_value = <<100, 1>>
  /\ result.sales_count = 3
  /\ Len(result.sales_data) = 3

\* ------------------------------------------------------------------ the verdict alone

\* The asking prices and the estimates calculate_profit_loss is tried on:
\* no estimate, the estimate 0, and quotients by 1, 3 and 8.
VerdictPrices == {1, 33, 50, 100, 150, 801}
VerdictEstimates ==
  {NoneValue} \cup {Fraction(n, d) : n \in {0, 100, 301, 801}, d \in {1, 3, 8}}

\* A handler holds an asking price and an estimate and is about to call
\* calculate_profit_loss (analyze.py:159-162).
InitVerdict ==
  /\ store = {}
  /\ next_id = 1
  /\ now = ClockStart
  /\ seeded = FALSE
  /\ purchases = 0
  /\ pc = "verdict"
  /\ query = NoQuery
  /\ t1_result = <<>>
  /\ t1_error = FALSE
  /\ t2_called = FALSE
  /\ t2_result = <<>>
  /\ t2_error = FALSE
  /\ prices = <<>>
  /\ estimated_value \in VerdictEstimates
  /\ result = NoResult
  /\ listing_price \in VerdictPrices
  /\ profit_loss = NoneValue
  /\ verdict = NoVerdict
  /\ cache = {}
  /\ redis = "none"
  /\ db_up = TRUE
  /\ reqs = [s \in Slots |-> IdleReq]
  /\ batch = NoBatch
  /\ last_set = {}
  /\ raw_text = NoText
  /\ slug = NoText
  /\ retry = NoRetry

\* analyze.py:159-162, profit_loss, verdict = await calculate_profit_loss(...)
CalculateProfitLoss ==
  /\ pc = "verdict"
  /\ pc' = "verdicted"
  /\ profit_loss' = calculate_profit_loss(listing_price, estimated_value).profit_loss
  /\ verdict' = calculate_profit_loss(listing_price, estimated_value).verdict
  /\ UNCHANGED <<query, t1_result, t1_error, t2_called, t2_result, t2_error,
                 prices, estimated_value, result, listing_price>>
  /\ UNCHANGED <<storeVars, cacheVars, db_up, reqs, batch, utilVars>>

NextVerdict == CalculateProfitLoss

SpecVerdict == InitVerdict /\ [][NextVerdict]_vars

\* ------------------------------------------------------------------ verdict claim

\* The amount printed is the nearest cent to the fraction x >= 0.
IsNearestCent(amount, x) ==
  /\ 2 * (100 * x[1] - amount * x[2]) <= x[2]
  /\ 2 * (amount * x[2] - 100 * x[1]) <= x[2]

\* C12: calculate_profit_loss returns no profit and the insufficient-data
\* text when the estimate is absent; otherwise the profit is the estimate
\* less the asking price, the text is GOOD DEAL with the profit when it is
\* positive, OVERPRICED with its absolute value when it is negative and
\* FAIR PRICE when it is zero; the estimate 0 counts as present.
C12_Verdict ==
  pc = "verdicted" =>
    IF estimated_value = NoneValue
    THEN /\ profit_loss = NoneValue
         /\ verdict.text = InsufficientData
    ELSE /\ profit_loss # NoneValue
         /\ profit_loss[2] > 0
         /\ profit_loss[1] * estimated_value[2] =
              (estimated_value[1] - listing_price * estimated_value[2]) * profit_loss[2]
         /\ (profit_loss[1] > 0 =>
               /\ verdict.text = GoodDeal
               /\ IsNearestCent(verdict.amount, profit_loss))
         /\ (profit_loss[1] < 0 =>
               /\ verdict.text = Overpriced
               /\ IsNearestCent(verdict.amount, <<-profit_loss[1], profit_loss[2]>>))
         /\ (profit_loss[1] = 0 => verdict.text = FairPrice)

\* The estimate 0 met an asking price of 50: a loss of 50.00.
C12_Witness ==
  /\ pc = "verdicted"
  /\ estimated_value = <<0, 1>>
  /\ listing_price = 50
  /\ profit_loss = <<-50, 1>>
  /\ verdict = Verdict(Overpriced, 5000)

\* ------------------------------------------------------------------ request layer: cache

\* Mutant: an expired key is still read.
Live_Stale(key) == {e \in cache : e.key = key}

\* Redis holds a key until its expiry time is reached.
Live(key) == {e \in cache : e.key = key /\ e.expire_at > now}

\* What a call hands back when it lets an exception out.
Raised == [raised |-> TRUE]

\* Mutant: no try/except around the read, the error reaches the caller.
get_cached_value_Raise(key) ==
  IF redis # "ok" THEN Raised
  ELSE IF Live(key) = {} THEN NoResponse
  ELSE json_loads((CHOOSE e \in Live(key) : TRUE).text)

\* redis_client.py:102-125: get_redis raises without a client and client.get
\* raises on a broken one, both caught; an absent key gives None.
get_cached_value(key) ==
  IF redis # "ok" THEN NoResponse
  ELSE IF Live(key) = {} THEN NoResponse
  ELSE json_loads((CHOOSE e \in Live(key) : TRUE).text)

\* redis_client.py:144-153: what set_cached_value returns.
SetOk(ttl) == redis = "ok" /\ ttl > 0

\* redis_client.py:128-153: SETEX replaces the key, its text and its expiry;
\* a failure is caught and nothing is written.
set_cached_value(key, value, ttl) ==
  IF SetOk(ttl)
  THEN /\ cache' = {e \in cache : e.key # key}
                     \cup {[key |-> key, text |-> json_dumps(value),
                            expire_at |-> now + ttl]}
       /\ last_set' = {w \in last_set : w.key # key}
                        \cup {[key |-> key, value |-> value, at |-> now, ttl |-> ttl]}
  ELSE UNCHANGED <<cache, last_set>>

\* Mutant: a hit renews the lifetime of the entry (a sliding expiry).
CacheAfterHit_Touch(key) ==
  {IF e.key = key /\ e.expire_at > now
   THEN [e EXCEPT !.expire_at = now + REDIS_DEFAULT_TTL] ELSE e : e \in cache}

\* analyze.py:103-123: the hit path issues no command to Redis.
CacheAfterHit(key) == cache

\* ------------------------------------------------------------------ request layer: handlers

\* Mutant: each endpoint keeps its results under a prefix of its own.
Namespace_PerEndpoint(kind) == IF kind = "bulk" THEN "bulk_analysis" ELSE "analysis"

\* analyze.py:100, bulk_analyze.py:108: the prefix both handlers pass to
\* generate_cache_key.
Namespace(kind) == "analysis"

\* The locals of analyze_listing / analyze_single_listing at their start.
NewReq(kind, index, title, price, session) ==
  [pc |-> "lookup", kind |-> kind, index |-> index, title |-> title,
   listing_price |-> price, session |-> session, called |-> {},
   cached_result |-> NoResponse, parsed |-> NoResponse, query |-> NoQuery,
   pricing |-> NoResult, set_ok |-> FALSE, raised |-> NoneStr,
   response |-> NoResponse]

\* bulk_analyze.py:68-76
BulkAnalyzeResultItem(index, title, price, success, data, error) ==
  [index |-> index, title |-> title, listing_price |-> price,
   success |-> success, data |-> data, error |-> error]

\* analyze.py:113-123 and :171-179, bulk_analyze.py:143-159 and :308-324: the
\* verdict is computed from the asking price of this request and the answer
\* is built.
Success(r, parsed, estimate, tier, count, cached) ==
  LET pv == calculate_profit_loss(r.listing_price, estimate)
      data == [parsed_data |-> parsed, estimated_value |-> estimate,
               profit_loss |-> pv.profit_loss, verdict |-> pv.verdict,
               match_tier |-> tier, sales_count |-> count, cached |-> cached]
  IN IF r.kind = "analyze"
     THEN [status |-> 200] @@ data
     ELSE BulkAnalyzeResultItem(r.index, r.title, r.listing_price, TRUE, data, NoneStr)

\* Mutant: analyze_single_listing without its handler.
ItemExcept_Reraise(r, e) == Raised

\* bulk_analyze.py:326-346: the handler of analyze_single_listing.
ItemExcept(r, e) ==
  BulkAnalyzeResultItem(r.index, r.title, r.listing_price, FALSE, NoResponse, e)

\* Mutant: a request that could not be parsed is answered as one without
\* comparable sales.
Failure_AsNoData(r, e) == Success(r, NoResponse, NoneValue, "none", 0, FALSE)

\* analyze.py:185-202: ValueError answers 400, any other exception 500.
Failure(r, e) ==
  IF r.kind = "analyze"
  THEN [status |-> IF e = "ValueError" THEN 400 ELSE 500, detail |-> e]
  ELSE ItemExcept(r, e)

\* Mutant: the verdict of the first request is cached with the estimate.
CacheData_WithVerdict(r) ==
  [parsed_data |-> r.parsed, estimated_value |-> r.pricing.estimated_value,
   match_tier |-> r.pricing.match_tier, sales_count |-> r.pricing.sales_count,
   listing_price |-> r.listing_price,
   verdict |-> calculate_profit_loss(r.listing_price, r.pricing.estimated_value).verdict]

\* analyze.py:150-155, bulk_analyze.py:244-249: cache_data.
CacheData(r) ==
  [parsed_data |-> r.parsed, estimated_value |-> r.pricing.estimated_value,
   match_tier |-> r.pricing.match_tier, sales_count |-> r.pricing.sales_count]

\* `if cached_result:`, the truth value of what the cache returned.
IsHit(cached_result) == cached_result # NoResponse /\ DOMAIN cached_result # {}

\* Another task is inside an execute on the same AsyncSession
\* (bulk_analyze.py:379-387 hands one session to every task).
SessionBusy(s) ==
  \E t \in Slots \ {s} :
    /\ reqs[t].pc \in {"tier1_exec", "tier2_exec"}
    /\ reqs[t].session = reqs[s].session

\* pricing_service.py:84-138 for a request: the query raises when the
\* database is down, and the handler turns that into no rows.
Execute1(q) ==
  IF db_up THEN {o \in query_tier1_exact_match(store, q, Limit) : ~o.error}
  ELSE {Tier1Except}

\* pricing_service.py:141-191 for a request.
Execute2(q) ==
  IF db_up THEN {o \in query_tier2_fuzzy_match(store, q, Limit) : ~o.error}
  ELSE {Tier2Except}

\* pricing_service.py:256-273
BuildResult(sales, tier) ==
  PricingResult(calculate_sanity_average(PricesOf(sales)), tier, sales)

\* analyze.py:194-202, bulk_analyze.py:326-346: an exception that leaves
\* get_estimated_value ends the request in the handler's except.
Propagate(r, e) ==
  [r EXCEPT !.pc = "done", !.raised = e, !.response = Failure(r, e)]

\* pricing_service.py:237-248 after Tier 1 returned.
AfterTier1(r, out) ==
  IF out.raised THEN Propagate(r, "SQLAlchemyError")
  ELSE IF HasSales(out.sales)
  THEN [r EXCEPT !.pc = "store", !.pricing = BuildResult(out.sales, Tier1Label)]
  ELSE [r EXCEPT !.pc = "tier2"]

\* pricing_service.py:248-273 after Tier 2 returned.
AfterTier2(r, out) ==
  IF out.raised THEN Propagate(r, "SQLAlchemyError")
  ELSE [r EXCEPT !.pc = "store",
                 !.pricing = BuildResult(out.sales, Tier2Label(out.sales))]

\* What a step of one request leaves alone.
ReqUnchanged == UNCHANGED <<storeVars, callVars, verdictVars, utilVars, db_up, batch>>

\* analyze.py:66-98: POST /analyze with a valid body; the session is the
\* request's own (database.py:46-67).
analyze_listing(s, title, price) ==
  /\ batch.pc = "idle"
  /\ reqs[s].pc = "idle"
  /\ reqs' = [reqs EXCEPT ![s] = NewReq("analyze", 0, title, price, <<"session", s>>)]
  /\ UNCHANGED cacheVars
  /\ ReqUnchanged

\* analyze.py:99-123, bulk_analyze.py:107-159: Step A, and the answer at once
\* on a hit.
Lookup(s) ==
  LET r == reqs[s]
      cache_key == generate_cache_key(Namespace(r.kind), r.title)
      cached_result == get_cached_value(cache_key)
  IN /\ r.pc = "lookup"
     /\ IF cached_result = Raised
        THEN /\ reqs' = [reqs EXCEPT ![s] =
                           [r EXCEPT !.pc = "done", !.raised = "RedisError",
                                     !.response = Failure(r, "RedisError")]]
             /\ UNCHANGED cache
        ELSE IF IsHit(cached_result)
        THEN /\ reqs' = [reqs EXCEPT ![s] =
                  [r EXCEPT !.pc = "done", !.cached_result = cached_result,
                            !.response = Success(r, cached_result.parsed_data,
                                                 cached_result.estimated_value,
                                                 cached_result.match_tier,
                                                 cached_result.sales_count, TRUE)]]
             /\ cache' = CacheAfterHit(cache_key)
        ELSE /\ reqs' = [reqs EXCEPT ![s] = [r EXCEPT !.pc = "parse"]]
             /\ UNCHANGED cache
     /\ UNCHANGED <<redis, last_set>>
     /\ ReqUnchanged

\* analyze.py:129-134, bulk_analyze.py:173-188: Step B and Step C; the parser
\* is called with the default number of retries, and an error it raises goes
\* to the handler's except.
ParseStep(s) ==
  LET r == reqs[s]
  IN /\ r.pc = "parse"
     /\ \E outcomes \in [1..(MAX_RETRIES + 1) -> AttemptOutcomes] :
          LET end == parse_listing_title_with_retry(r.title, outcomes, MAX_RETRIES)
          IN reqs' = [reqs EXCEPT ![s] =
               IF end.raised = NoneStr
               THEN [r EXCEPT !.pc = "tier1", !.parsed = end.returned,
                              !.query = QueryOf(end.returned),
                              !.called = r.called \cup {"parser", "slugify"}]
               ELSE [r EXCEPT !.pc = "done", !.called = r.called \cup {"parser"},
                              !.raised = end.raised,
                              !.response = Failure(r, end.raised)]]
     /\ UNCHANGED cacheVars
     /\ ReqUnchanged

\* pricing_service.py:228-235 and :109-138: get_estimated_value awaits the
\* Tier 1 query; an execute on a session that is inside another execute
\* raises, which the query function turns into no rows.
Tier1Call(s) ==
  LET r == [reqs[s] EXCEPT !.called = reqs[s].called \cup {"matcher"}]
  IN /\ reqs[s].pc = "tier1"
     /\ reqs' = [reqs EXCEPT ![s] =
                   IF SessionBusy(s) THEN AfterTier1(r, Tier1Except)
                   ELSE [r EXCEPT !.pc = "tier1_exec"]]
     /\ UNCHANGED cacheVars
     /\ ReqUnchanged

\* pricing_service.py:132-138 and :237-248: the Tier 1 query answers.
Tier1Return(s) ==
  LET r == reqs[s]
  IN /\ r.pc = "tier1_exec"
     /\ \E out \in Execute1(r.query) :
          reqs' = [reqs EXCEPT ![s] = AfterTier1(r, out)]
     /\ UNCHANGED cacheVars
     /\ ReqUnchanged

\* pricing_service.py:243-248 and :163-191: the Tier 2 query is awaited.
Tier2Call(s) ==
  LET r == reqs[s]
  IN /\ r.pc = "tier2"
     /\ reqs' = [reqs EXCEPT ![s] =
                   IF SessionBusy(s) THEN AfterTier2(r, Tier2Except)
                   ELSE [r EXCEPT !.pc = "tier2_exec"]]
     /\ UNCHANGED cacheVars
     /\ ReqUnchanged

\* pricing_service.py:185-191 and :248-273: the Tier 2 query answers.
Tier2Return(s) ==
  LET r == reqs[s]
  IN /\ r.pc = "tier2_exec"
     /\ \E out \in Execute2(r.query) :
          reqs' = [reqs EXCEPT ![s] = AfterTier2(r, out)]
     /\ UNCHANGED cacheVars
     /\ ReqUnchanged

\* analyze.py:149-183, bulk_analyze.py:243-324: Step F writes the entry with
\* the default lifetime, Step G builds the answer.
StoreStep(s) ==
  LET r == reqs[s]
      cache_key == generate_cache_key(Namespace(r.kind), r.title)
  IN /\ r.pc = "store"
     /\ set_cached_value(cache_key, CacheData(r), REDIS_DEFAULT_TTL)
     /\ reqs' = [reqs EXCEPT ![s] =
          [r EXCEPT !.pc = "done", !.set_ok = SetOk(REDIS_DEFAULT_TTL),
                    !.response = Success(r, r.parsed, r.pricing.estimated_value,
                                         r.pricing.match_tier,
                                         r.pricing.sales_count, FALSE)]]
     /\ UNCHANGED redis
     /\ ReqUnchanged

\* analyze.py:183 and :185-202: the answer of POST /analyze is sent.
Finish(s) ==
  /\ reqs[s].pc = "done"
  /\ reqs[s].kind = "analyze"
  /\ reqs' = [reqs EXCEPT ![s] = IdleReq]
  /\ UNCHANGED cacheVars
  /\ ReqUnchanged

\* The steps of the request in slot s.
RequestStep(s) ==
  \/ Lookup(s)
  \/ ParseStep(s)
  \/ Tier1Call(s)
  \/ Tier1Return(s)
  \/ Tier2Call(s)
  \/ Tier2Return(s)
  \/ StoreStep(s)

\* ------------------------------------------------------------------ request layer: environment

EnvUnchanged == UNCHANGED <<storeVars, callVars, verdictVars, utilVars, db_up, reqs, batch>>

\* redis_client.py:24-46: the client is made, then pinged; a failed ping
\* leaves a client whose commands raise.
init_redis ==
  /\ redis = "none"
  /\ redis' \in {"ok", "error"}
  /\ UNCHANGED <<cache, last_set>>
  /\ EnvUnchanged

\* The Redis server stops answering, or answers again.
RedisFail ==
  /\ redis = "ok"
  /\ redis' = "error"
  /\ UNCHANGED <<cache, last_set>>
  /\ EnvUnchanged

RedisRecover ==
  /\ redis = "error"
  /\ redis' = "ok"
  /\ UNCHANGED <<cache, last_set>>
  /\ EnvUnchanged

\* cache.py:15-49: DELETE /cache/clear: FLUSHDB, or an error answer without a
\* working client.
clear_cache ==
  /\ IF redis = "ok"
     THEN cache' = {} /\ last_set' = {}
     ELSE UNCHANGED <<cache, last_set>>
  /\ UNCHANGED redis
  /\ EnvUnchanged

\* Time passes.
Tick ==
  /\ now + TickStep <= ClockStart + MaxTicks * TickStep + MaxPurchases
  /\ now' = now + TickStep
  /\ UNCHANGED <<store, next_id, seeded, purchases>>
  /\ UNCHANGED <<callVars, verdictVars, utilVars, cacheVars, db_up, reqs, batch>>

\* The database stops answering, or answers again.
DbDown ==
  /\ db_up
  /\ db_up' = FALSE
  /\ UNCHANGED <<storeVars, callVars, verdictVars, utilVars, cacheVars, reqs, batch>>

DbUp ==
  /\ ~db_up
  /\ db_up' = TRUE
  /\ UNCHANGED <<storeVars, callVars, verdictVars, utilVars, cacheVars, reqs, batch>>

\* ------------------------------------------------------------------ request layer: batch

\* bulk_analyze.py:78-81
BulkAnalyzeResponse(results) ==
  [results |-> results, total |-> Len(results),
   successful |-> Cardinality({i \in 1..Len(results) : results[i].success}),
   failed |-> Cardinality({i \in 1..Len(results) : ~results[i].success})]

\* bulk_analyze.py:350-387: POST /analyze/bulk with a valid body; one task
\* for each listing, in order, all of them on the session of the request.
analyze_bulk_listings(listings) ==
  /\ batch.pc = "idle"
  /\ \A s \in Slots : reqs[s].pc = "idle"
  /\ batch' = [pc |-> "running", listings |-> listings]
  /\ reqs' = [s \in Slots |->
                IF s <= Len(listings)
                THEN NewReq("bulk", s - 1, listings[s][1], listings[s][2],
                            <<"session", 0>>)
                ELSE IdleReq]
  /\ UNCHANGED <<storeVars, callVars, verdictVars, utilVars, cacheVars, db_up>>

\* bulk_analyze.py:389-405: gather hands back the results of the tasks in
\* the order of the tasks, or lets the exception of a task out; the summary
\* is counted and the answer built.
Gather ==
  /\ batch.pc = "running"
  /\ \A s \in 1..Len(batch.listings) : reqs[s].pc = "done"
  /\ LET results == [i \in 1..Len(batch.listings) |-> reqs[i].response]
     IN batch' =
          IF \E i \in 1..Len(results) : results[i] = Raised
          THEN [pc |-> "raised", listings |-> batch.listings]
          ELSE [pc |-> "done", listings |-> batch.listings,
                response |-> BulkAnalyzeResponse(results)]
  /\ reqs' = [s \in Slots |-> IdleReq]
  /\ UNCHANGED <<storeVars, callVars, verdictVars, utilVars, cacheVars, db_up>>

\* bulk_analyze.py:400-405: the answer of POST /analyze/bulk is sent.
BulkFinish ==
  /\ batch.pc \in {"done", "raised"}
  /\ batch' = NoBatch
  /\ UNCHANGED <<storeVars, callVars, verdictVars, utilVars, cacheVars, db_up, reqs>>

\* ------------------------------------------------------------------ request layer: entry

\* The answer to a body that did not validate.
Unprocessable == [status |-> 422]

\* A request the framework answered without calling the handler.
RejectedReq(kind, body, session) ==
  [NewReq(kind, 0, body.title, body.listing_price, session)
     EXCEPT !.pc = "done", !.raised = "RequestValidationError",
            !.response = Unprocessable]

\* POST /analyze with any body: analyze_listing runs on the validated
\* AnalyzeRequest (analyze.py:66-69), or the body is rejected before it.
post_analyze(s, body) ==
  /\ batch.pc = "idle"
  /\ reqs[s].pc = "idle"
  /\ LET request == AnalyzeRequest(body)
     IN IF request = Rejected
        THEN /\ reqs' = [reqs EXCEPT ![s] =
                           RejectedReq("analyze", body, <<"session", s>>)]
             /\ UNCHANGED cacheVars
             /\ ReqUnchanged
        ELSE analyze_listing(s, request.title, request.listing_price)

\* POST /analyze/bulk with any body: analyze_bulk_listings runs on the
\* validated BulkAnalyzeRequest (bulk_analyze.py:350-353), or the whole body
\* is rejected before it.
post_bulk(bodies) ==
  /\ batch.pc = "idle"
  /\ \A s \in Slots : reqs[s].pc = "idle"
  /\ LET request == BulkAnalyzeRequest(bodies)
     IN IF request = Rejected
        THEN /\ batch' = [pc |-> "done", listings |-> bodies,
                          response |-> Unprocessable]
             /\ UNCHANGED <<storeVars, callVars, verdictVars, utilVars,
                            cacheVars, db_up, reqs>>
        ELSE analyze_bulk_listings(request.listings)

\* ------------------------------------------------------------------ request layer: specifications

\* The sales the table holds when requests arrive: three of one card.
ApiSeed ==
  << Row(MJ, TOPPS, BASE, 2020, 10, "PSA", 80, 1),
     Row(MJ, TOPPS, BASE, 2020, 10, "PSA", 100, 2),
     Row(MJ, TOPPS, BASE, 2021, 10, "BGS", 120, 3) >>
ApiStore == {WithId(ApiSeed[i], i) : i \in 1..Len(ApiSeed)}

\* The asking prices of the requests.
AskingPrices == {90, 120}

\* The listings of a batch request (bulk_analyze.py:40-66).
BulkListings == UNION {[1..n -> Titles \X AskingPrices] : n \in 1..MaxBatch}

\* The service after seed_db.py has run, before the application started.
InitApi ==
  /\ store = ApiStore
  /\ next_id = 1 + Len(ApiSeed)
  /\ now = ClockStart
  /\ seeded = TRUE
  /\ purchases = 0
  /\ pc = "idle"
  /\ query = NoQuery
  /\ t1_result = <<>>
  /\ t1_error = FALSE
  /\ t2_called = FALSE
  /\ t2_result = <<>>
  /\ t2_error = FALSE
  /\ prices = <<>>
  /\ estimated_value = NoneValue
  /\ result = NoResult
  /\ ApiInit

\* POST /analyze and POST /analyze/bulk with one listing, one request at a
\* time, with the cache, the purchases and the failures of Redis and of the
\* database around it.
NextApi ==
  \/ init_redis
  \/ RedisFail
  \/ RedisRecover
  \/ DbDown
  \/ DbUp
  \/ \E purchase \in PurchaseInputs : create_purchase(purchase)
  \/ \E title \in Titles, price \in AskingPrices : analyze_listing(1, title, price)
  \/ \E listing \in Titles \X AskingPrices : analyze_bulk_listings(<<listing>>)
  \/ RequestStep(1)
  \/ Finish(1)
  \/ Gather
  \/ BulkFinish

SpecApi == InitApi /\ [][NextApi]_vars

\* POST /analyze, one request at a time, with the cache, the clock, the
\* clearing of the cache and the failures of Redis around it.
NextCache ==
  \/ init_redis
  \/ RedisFail
  \/ RedisRecover
  \/ clear_cache
  \/ Tick
  \/ \E title \in Titles, price \in AskingPrices : analyze_listing(1, title, price)
  \/ RequestStep(1)
  \/ Finish(1)

SpecCache == InitApi /\ [][NextCache]_vars

\* The service started (main.py:21-47), Redis and the database answering.
InitBatch ==
  /\ store = ApiStore
  /\ next_id = 1 + Len(ApiSeed)
  /\ now = ClockStart
  /\ seeded = TRUE
  /\ purchases = 0
  /\ pc = "idle"
  /\ query = NoQuery
  /\ t1_result = <<>>
  /\ t1_error = FALSE
  /\ t2_called = FALSE
  /\ t2_result = <<>>
  /\ t2_error = FALSE
  /\ prices = <<>>
  /\ estimated_value = NoneValue
  /\ result = NoResult
  /\ listing_price = NoneNum
  /\ profit_loss = NoneValue
  /\ verdict = NoVerdict
  /\ cache = {}
  /\ redis = "ok"
  /\ db_up = TRUE
  /\ reqs = [s \in Slots |-> IdleReq]
  /\ batch = NoBatch
  /\ last_set = {}
  /\ raw_text = NoText
  /\ slug = NoText
  /\ retry = NoRetry

\* POST /analyze/bulk: the items of one batch at a time, interleaved.
NextBatch ==
  \/ \E listings \in BulkListings : analyze_bulk_listings(listings)
  \/ \E s \in Slots : RequestStep(s)
  \/ Gather
  \/ BulkFinish

SpecBatch == InitBatch /\ [][NextBatch]_vars

\* Concurrent POST /analyze requests, each on a session of its own, with a
\* database that can stop answering and answer again.
NextPair ==
  \/ \E s \in Slots, title \in Titles, price \in AskingPrices :
       analyze_listing(s, title, price)
  \/ \E s \in Slots : RequestStep(s)
  \/ \E s \in Slots : Finish(s)
  \/ DbDown
  \/ DbUp

SpecPair == InitBatch /\ [][NextPair]_vars

\* ------------------------------------------------------------------ cache claims

\* The key of the analysis of a title (analyze.py:100, bulk_analyze.py:108).
KeyOf(title) == generate_cache_key("analysis", title)

\* The fields of the answer: the body of POST /analyze, the data of an item.
DataOf(r) == IF r.kind = "analyze" THEN r.response ELSE r.response.data

\* The request in slot s has answered from a cached value.
AnsweredFromCache(s) ==
  /\ reqs[s].pc = "done"
  /\ IsHit(reqs[s].cached_result)

\* The request in slot s has answered with a result, not with an error.
Succeeded(s) ==
  /\ reqs[s].pc = "done"
  /\ reqs[s].raised = NoneStr

\* C13: on a cache hit analyze_listing and analyze_single_listing call
\* neither the parser, the normalizer nor the matcher, take profit_loss and
\* the verdict from the cached estimate and the asking price of the request
\* at hand and answer cached = true; no asking price, profit or verdict is
\* ever in the cache, so that requests for one title at different prices get
\* each the verdict of their own price.
C13_HitRecomputesVerdict ==
  /\ \A s \in Slots :
       AnsweredFromCache(s) =>
         LET r == reqs[s]
             d == DataOf(r)
             e == r.cached_result.estimated_value
         IN /\ r.called = {}
            /\ r.raised = NoneStr
            /\ d.cached = TRUE
            /\ d.estimated_value = e
            /\ d.match_tier = r.cached_result.match_tier
            /\ d.sales_count = r.cached_result.sales_count
            /\ d.parsed_data = r.cached_result.parsed_data
            /\ IF e = NoneValue
               THEN d.profit_loss = NoneValue /\ d.verdict.text = InsufficientData
               ELSE /\ d.profit_loss = <<e[1] - r.listing_price * e[2], e[2]>>
                    /\ d.verdict.text =
                         IF d.profit_loss[1] > 0 THEN GoodDeal
                         ELSE IF d.profit_loss[1] < 0 THEN Overpriced
                         ELSE FairPrice
  /\ \A entry \in cache :
       DOMAIN json_loads(entry.text) =
         {"parsed_data", "estimated_value", "match_tier", "sales_count"}

\* A batch item asking 120 was answered from the entry of its title, whose
\* estimate is 100: overpriced by 20.00, nothing called.
C13_Witness ==
  /\ AnsweredFromCache(1)
  /\ reqs[1].kind = "bulk"
  /\ reqs[1].listing_price = 120
  /\ reqs[1].called = {}
  /\ DataOf(reqs[1]).cached = TRUE
  /\ DataOf(reqs[1]).estimated_value = <<100, 1>>
  /\ DataOf(reqs[1]).verdict = Verdict(Overpriced, 2000)

\* What get_cached_value has to return for the key: the value of the last
\* successful write, until its lifetime is over or the cache is cleared.
Expected(key) ==
  IF \E w \in last_set : w.key = key /\ now < w.at + w.ttl
  THEN (CHOOSE w \in last_set : w.key = key).value
  ELSE NoResponse

\* C14: once set_cached_value(key, v, ttl) has succeeded, get_cached_value
\* returns a value equal to v until ttl seconds have passed; it returns
\* nothing for a key never written, for a key whose lifetime is over, and
\* for every key after the cache was cleared, until the key is written
\* again.
C14_RoundTrip ==
  redis = "ok" =>
    \A title \in Titles : get_cached_value(KeyOf(title)) = Expected(KeyOf(title))

\* Half a lifetime after the write the value is read back as written.
C14_Witness ==
  /\ redis = "ok"
  /\ \E w \in last_set :
       /\ w.key = KeyOf(TitleExact)
       /\ now = w.at + TickStep
       /\ w.value.estimated_value = <<100, 1>>
       /\ get_cached_value(KeyOf(TitleExact)) = w.value

\* The step is a cache hit of the request in slot s.
HitStep(s) ==
  /\ reqs[s].pc = "lookup"
  /\ reqs'[s].pc = "done"
  /\ IsHit(reqs'[s].cached_result)

\* C15: the lifetime of an entry is fixed, not sliding: a hit neither
\* rewrites the entry nor moves its expiry, every entry was written with the
\* default lifetime of 3600 seconds, and 3600 seconds after it was written
\* it is absent, whatever was read in between.
C15_FixedExpiry ==
  [][ /\ \A s \in Slots : HitStep(s) => cache' = cache /\ last_set' = last_set
      /\ \A entry \in cache' :
           \E w \in last_set' :
             /\ w.key = entry.key
             /\ w.ttl = REDIS_DEFAULT_TTL
             /\ entry.expire_at = w.at + REDIS_DEFAULT_TTL
      /\ \A w \in last_set' :
           now' >= w.at + REDIS_DEFAULT_TTL =>
             (redis' = "ok" => get_cached_value(w.key)' = NoResponse) ]_vars

\* A request finds nothing 3600 seconds after the entry of its title was
\* written, and goes on to the parser.
C15_Witness ==
  /\ reqs[1].pc = "parse"
  /\ redis = "ok"
  /\ \E w \in last_set :
       /\ w.key = KeyOf(reqs[1].title)
       /\ now = w.at + REDIS_DEFAULT_TTL

\* C16: without a working cache (no client, or a client whose commands
\* raise) get_cached_value returns nothing and set_cached_value returns
\* false, neither raising; the request is handled as a miss, computes its
\* result and answers with success and cached = false.
C16_CacheUnavailable ==
  [][ \A s \in Slots :
        redis # "ok" =>
          /\ \A title \in Titles : get_cached_value(KeyOf(title)) = NoResponse
          /\ ~SetOk(REDIS_DEFAULT_TTL)
          /\ (reqs[s].pc = "lookup" /\ reqs'[s] # reqs[s] => reqs'[s].pc = "parse")
          /\ (reqs[s].pc = "store" /\ reqs'[s] # reqs[s] =>
                /\ reqs'[s].pc = "done"
                /\ reqs'[s].raised = NoneStr
                /\ ~reqs'[s].set_ok
                /\ cache' = cache
                /\ DataOf(reqs'[s]).cached = FALSE
                /\ DataOf(reqs'[s]).estimated_value = reqs[s].pricing.estimated_value
                /\ (reqs[s].kind = "analyze" => reqs'[s].response.status = 200)
                /\ (reqs[s].kind = "bulk" => reqs'[s].response.success)) ]_vars

\* A request went through without a Redis client: answered 200 with the
\* estimate 100, not cached, nothing written.
C16_Witness ==
  /\ redis = "none"
  /\ Succeeded(1)
  /\ reqs[1].kind = "analyze"
  /\ reqs[1].called = {"parser", "slugify", "matcher"}
  /\ ~reqs[1].set_ok
  /\ reqs[1].response.status = 200
  /\ reqs[1].response.cached = FALSE
  /\ reqs[1].response.estimated_value = <<100, 1>>
  /\ cache = {}

\* The results get_estimated_value returns for the title on the table and
\* the database as they are now, every call reaching the matcher: the
\* service without the cache.
PipelineResults(title) ==
  LET q == QueryOf(Parse(title))
  IN UNION { IF HasSales(o1.sales)
             THEN {BuildResult(o1.sales, Tier1Label)}
             ELSE {BuildResult(o2.sales, Tier2Label(o2.sales)) : o2 \in Execute2(q)} :
             o1 \in Execute1(q) }

\* The three fields of a result the claims compare.
FieldsOf(p) == <<p.estimated_value, p.match_tier, p.sales_count>>

\* C17: the cache is a pure memoization: whatever requests, purchases and
\* database failures came before, the estimated_value, match_tier and
\* sales_count a request is answered with from the cache are those the
\* service without the cache answers with.
C17_PureMemoization ==
  [][ \A s \in Slots :
        HitStep(s) =>
          FieldsOf(DataOf(reqs'[s])) \in
            {FieldsOf(p) : p \in PipelineResults(reqs[s].title)} ]_vars

\* ------------------------------------------------------------------ batch claims

\* C18: all writers of one cache key write the same value: however the
\* concurrent requests for one title interleave (each may miss, parse, match
\* and then write), a write under a key that is already there leaves the
\* value there as it was.
C18_WritersAgree ==
  [][ \A old \in cache, new \in cache' :
        old.key = new.key => json_loads(old.text) = json_loads(new.text) ]_vars

\* The step ends the gathering of the batch.
GatherStep == batch.pc = "running" /\ batch'.pc # "running"

\* C19: the failure of one item of a batch does not end the others:
\* analyze_bulk_listings answers with exactly one result for each listing,
\* in the order of the request and with index = position; an item whose
\* pipeline raised has success = false, the text of the error and no data,
\* every other item has success = true; total = successful + failed = the
\* number of listings.
C19_BatchIsolation ==
  [][ GatherStep =>
        /\ batch'.pc = "done"
        /\ LET listings == batch.listings
               response == batch'.response
               results == response.results
               failing == {i \in 1..Len(listings) : reqs[i].raised # NoneStr}
           IN /\ Len(results) = Len(listings)
              /\ \A i \in 1..Len(listings) :
                   /\ results[i].index = i - 1
                   /\ results[i].title = listings[i][1]
                   /\ results[i].listing_price = listings[i][2]
                   /\ (i \in failing =>
                         /\ results[i].success = FALSE
                         /\ results[i].error = reqs[i].raised
                         /\ results[i].data = NoResponse)
                   /\ (i \notin failing =>
                         /\ results[i].success = TRUE
                         /\ results[i].error = NoneStr
                         /\ results[i].data # NoResponse)
              /\ response.total = Len(listings)
              /\ response.failed = Cardinality(failing)
              /\ response.successful + response.failed = response.total ]_vars

\* A batch of two was answered; the parser gave up on the first listing
\* only.
C19_Witness ==
  /\ batch.pc = "done"
  /\ Len(batch.listings) = 2
  /\ Len(batch.response.results) = 2
  /\ batch.response.results[1].success = FALSE
  /\ batch.response.results[1].index = 0
  /\ batch.response.results[2].success = TRUE
  /\ batch.response.results[2].index = 1
  /\ batch.response.successful = 1
  /\ batch.response.failed = 1

\* The match tier, the rows and the estimate the pipeline gives the title
\* when the item runs alone: the table is as the requests found it and no
\* other task is on the session.
AloneResults(title) == PipelineResults(title)

\* C20: the items of a batch run concurrently and share nothing that
\* changes but the cache: the match tier, the rows and the estimate of an
\* item are the same under every interleaving with the other items as when
\* it runs alone.
C20_ItemsIndependent ==
  \A s \in Slots :
    /\ (reqs[s].pc \in {"store", "done"} /\ reqs[s].pricing # NoResult =>
          reqs[s].pricing \in AloneResults(reqs[s].title))
    /\ (Succeeded(s) =>
          FieldsOf(DataOf(reqs[s])) \in
            {FieldsOf(p) : p \in AloneResults(reqs[s].title)})
\* ------------------------------------------------------------------ slugify alone

\* Longest text handed to slugify.
MaxText == 5

\* The characters of those texts: a capital and a small letter, a digit, two
\* kinds of whitespace, the hyphen and a character outside every class.
TextChars == {"B", "a", "7", " ", "\t", "-", "."}

\* None and every text of at most MaxText characters.
Texts == {NoText} \cup UNION {[1..n -> TextChars] : n \in 0..MaxText}

\* A caller holds a text and is about to call slugify (analyze.py:132-134,
\* seed_db.py:118-120).
InitSlug ==
  /\ store = {}
  /\ next_id = 1
  /\ now = ClockStart
  /\ seeded = FALSE
  /\ purchases = 0
  /\ pc = "slugify"
  /\ query = NoQuery
  /\ t1_result = <<>>
  /\ t1_error = FALSE
  /\ t2_called = FALSE
  /\ t2_result = <<>>
  /\ t2_error = FALSE
  /\ prices = <<>>
  /\ estimated_value = NoneValue
  /\ result = NoResult
  /\ listing_price = NoneNum
  /\ profit_loss = NoneValue
  /\ verdict = NoVerdict
  /\ cache = {}
  /\ redis = "none"
  /\ db_up = TRUE
  /\ reqs = [s \in Slots |-> IdleReq]
  /\ batch = NoBatch
  /\ last_set = {}
  /\ raw_text \in Texts
  /\ slug = NoText
  /\ retry = NoRetry

\* player_id = slugify(...): the call returns.
Slugify ==
  /\ pc = "slugify"
  /\ pc' = "slugified"
  /\ slug' = slugify(raw_text)
  /\ UNCHANGED <<raw_text, retry>>
  /\ UNCHANGED <<query, t1_result, t1_error, t2_called, t2_result, t2_error,
                 prices, estimated_value, result>>
  /\ UNCHANGED <<storeVars, verdictVars, cacheVars, db_up, reqs, batch>>

\* slugify is called on what it returned.
SlugifyAgain ==
  /\ pc = "slugified"
  /\ pc' = "reslugified"
  /\ raw_text' = slug
  /\ slug' = slugify(slug)
  /\ UNCHANGED retry
  /\ UNCHANGED <<query, t1_result, t1_error, t2_called, t2_result, t2_error,
                 prices, estimated_value, result>>
  /\ UNCHANGED <<storeVars, verdictVars, cacheVars, db_up, reqs, batch>>

NextSlug == Slugify \/ SlugifyAgain

SpecSlug == InitSlug /\ [][NextSlug]_vars

\* ------------------------------------------------------------------ slugify claims

\* A text in the canonical form of an identifier.
Canonical(s) ==
  /\ \A i \in 1..Len(s) : s[i] \in SlugChars
  /\ \A i \in 1..(Len(s) - 1) : ~(s[i] = "-" /\ s[i + 1] = "-")
  /\ s # <<>> => s[1] # "-" /\ s[Len(s)] # "-"

RECURSIVE SlugWords(_, _)
\* The words of a text: its letters and digits in lower case, cut at every
\* whitespace character and hyphen; any other character is left out of the
\* word it stands in.
SlugWords(s, cur) ==
  IF s = <<>> THEN (IF cur = <<>> THEN <<>> ELSE <<cur>>)
  ELSE LET c == LowerChar(Head(s))
       IN IF c \in Whitespace \cup {"-"}
          THEN (IF cur = <<>> THEN <<>> ELSE <<cur>>) \o SlugWords(Tail(s), <<>>)
          ELSE IF c \in SlugChars THEN SlugWords(Tail(s), cur \o <<c>>)
          ELSE SlugWords(Tail(s), cur)

RECURSIVE JoinHyphen(_)
\* The words with one hyphen between neighbours.
JoinHyphen(ws) ==
  IF ws = <<>> THEN <<>>
  ELSE IF Len(ws) = 1 THEN ws[1]
  ELSE ws[1] \o <<"-">> \o JoinHyphen(Tail(ws))

\* C24: whatever it is given, slugify returns a text made of a-z, 0-9 and
\* the hyphen only, with no two hyphens in a row and none at either end: the
\* words of the input in lower case, one hyphen for each run of whitespace
\* between them, the other characters dropped and not replaced. None and the
\* empty text give the empty text, and a variation the parser left out is
\* looked up as "base".
C24_SlugifyCanonical ==
  /\ pc \in {"slugified", "reslugified"} =>
       /\ Canonical(slug)
       /\ raw_text \in {NoText, <<>>} => slug = <<>>
       /\ raw_text # NoText => slug = JoinHyphen(SlugWords(raw_text, <<>>))
  /\ \A variation \in {NoText, <<>>} :
       QueryOf(ParsedCardData(<<"B">>, <<"a">>, variation, NoneNum, NoneNum,
                              NoneStr)).variation_id = <<"b", "a", "s", "e">>

\* A capital, a dropped character, whitespace and a digit became "b-7".
C24_Witness ==
  /\ pc = "slugified"
  /\ raw_text = <<"B", ".", " ", "7">>
  /\ slug = <<"b", "-", "7">>

\* C25: slugify applied to what slugify returned gives it back unchanged.
C25_SlugifyIdempotent ==
  [][pc = "slugified" /\ pc' = "reslugified" => slug' = slug]_vars

\* slugify was applied to the identifier "a-7" it had returned.
C25_Witness ==
  /\ pc = "reslugified"
  /\ raw_text = <<"a", "-", "7">>
  /\ slug = <<"a", "-", "7">>

\* ------------------------------------------------------------------ parser retries alone

\* Largest max_retries a call is given.
MaxRetries == 3

\* The calls: a title, a number of retries, and what each call of
\* parse_listing_title would end with.
RetryCalls ==
  UNION {[pc : {"call"}, title : Titles, max_retries : {m},
          outcomes : [1..(m + 1) -> AttemptOutcomes]] : m \in 0..MaxRetries}

\* A handler is about to call parse_listing_title_with_retry.
InitRetry ==
  /\ store = {}
  /\ next_id = 1
  /\ now = ClockStart
  /\ seeded = FALSE
  /\ purchases = 0
  /\ pc = "idle"
  /\ query = NoQuery
  /\ t1_result = <<>>
  /\ t1_error = FALSE
  /\ t2_called = FALSE
  /\ t2_result = <<>>
  /\ t2_error = FALSE
  /\ prices = <<>>
  /\ estimated_value = NoneValue
  /\ result = NoResult
  /\ listing_price = NoneNum
  /\ profit_loss = NoneValue
  /\ verdict = NoVerdict
  /\ cache = {}
  /\ redis = "none"
  /\ db_up = TRUE
  /\ reqs = [s \in Slots |-> IdleReq]
  /\ batch = NoBatch
  /\ last_set = {}
  /\ raw_text = NoText
  /\ slug = NoText
  /\ retry \in RetryCalls

\* The call returns or raises.
ParseWithRetry ==
  /\ retry.pc = "call"
  /\ retry' = [retry EXCEPT !.pc = "done"]
                @@ parse_listing_title_with_retry(retry.title, retry.outcomes,
                                                  retry.max_retries)
  /\ UNCHANGED <<raw_text, slug>>
  /\ UNCHANGED <<storeVars, callVars, verdictVars, cacheVars, db_up, reqs, batch>>

NextRetry == ParseWithRetry

SpecRetry == InitRetry /\ [][NextRetry]_vars

\* ------------------------------------------------------------------ parser retry claim

\* The attempts of a call that end in parsed fields.
Returning(c) == {i \in 1..(c.max_retries + 1) : c.outcomes[i] = "ok"}

\* C29: a call of parse_listing_title_with_retry ends after at most
\* max_retries + 1 attempts: at the first attempt that returns, with the
\* fields that attempt parsed and no attempt after it; or, when every
\* attempt raised, after max_retries + 1 attempts with the error of the last.
C29_RetryBounded ==
  retry.pc = "done" =>
    /\ retry.attempts <= retry.max_retries + 1
    /\ IF Returning(retry) # {}
       THEN /\ retry.attempts = CHOOSE i \in Returning(retry) :
                                  \A j \in Returning(retry) : i <= j
            /\ retry.returned = Parse(retry.title)
            /\ retry.raised = NoneStr
       ELSE /\ retry.attempts = retry.max_retries + 1
            /\ retry.returned = NoResponse
            /\ retry.raised = retry.outcomes[retry.max_retries + 1]

\* With the default of two retries: two different errors, then a third, and
\* the third is the one raised after three attempts.
C29_Witness ==
  /\ retry.pc = "done"
  /\ retry.max_retries = MAX_RETRIES
  /\ retry.outcomes = <<"APIError", "APIError", "ValueError">>
  /\ retry.attempts = 3
  /\ retry.raised = "ValueError"

\* ------------------------------------------------------------------ failure claims

\* The errors parse_listing_title_with_retry raises.
ParserErrors == AttemptOutcomes \ {"ok"}

\* The answer of the request r reports a failure and carries no verdict.
ReportsFailure(r) ==
  IF r.kind = "analyze"
  THEN /\ r.response.status = (IF r.raised = "ValueError" THEN 400 ELSE 500)
       /\ "verdict" \notin DOMAIN r.response
  ELSE /\ ~r.response.success
       /\ r.response.data = NoResponse
       /\ r.response.error = r.raised

\* C21: when the parser gives up, the request ends there with a reported
\* failure: neither tier of the matcher was queried, nothing was written to
\* the cache and no verdict is answered; and a request whose title has no
\* live entry in the cache goes on to the parser, so the title is parsed
\* again by the next request for it.
C21_ParseFailureEndsRequest ==
  [][/\ \A s \in Slots :
          (reqs'[s].pc # "idle" /\ reqs'[s].raised \in ParserErrors) =>
            /\ reqs'[s].pc = "done"
            /\ reqs'[s].called = {"parser"}
            /\ reqs'[s].pricing = NoResult
            /\ ~reqs'[s].set_ok
            /\ ReportsFailure(reqs'[s])
     /\ \A s \in Slots :
          (reqs[s].pc = "parse" /\ reqs'[s].pc = "done") =>
            cache' = cache /\ last_set' = last_set
     /\ \A s \in Slots :
          (reqs[s].pc = "lookup" /\ reqs'[s].pc # "lookup"
           /\ Live(KeyOf(reqs[s].title)) = {}) =>
            reqs'[s].pc = "parse"
    ]_vars

\* POST /analyze answered 400 after the parser raised ValueError, with a
\* working Redis holding no entry for the title.
C21_Witness ==
  /\ reqs[1].pc = "done"
  /\ reqs[1].kind = "analyze"
  /\ reqs[1].raised = "ValueError"
  /\ reqs[1].response.status = 400
  /\ redis = "ok"
  /\ Live(KeyOf(reqs[1].title)) = {}

\* ------------------------------------------------------------------ requests with any body

\* A title of n characters.
Long(n) == [i \in 1..n |-> "a"]

\* The titles of the bodies: None, empty, whitespace only, a title with
\* whitespace around it, the longest title allowed and one character more.
RawTitles ==
  {NoText, <<>>, <<" ", "\t">>, <<" ">> \o TitleExact \o <<"\n">>,
   Long(MAX_TITLE_LENGTH), Long(MAX_TITLE_LENGTH + 1)}

\* The asking prices of the bodies.
RawPrices == {-1, 0, 90}

\* Each title at a price above zero, and a title that validates at each
\* price.
Bodies ==
  {Body(t, 90) : t \in RawTitles}
    \cup {Body(<<" ">> \o TitleExact \o <<"\n">>, p) : p \in RawPrices}

\* The two endpoints, given any body, on the started service.
NextValidate ==
  \/ \E body \in Bodies : post_analyze(1, body)
  \/ \E n \in 0..MaxBatch : \E bodies \in [1..n -> Bodies] : post_bulk(bodies)
  \/ \E s \in Slots : RequestStep(s)
  \/ Finish(1)
  \/ Gather
  \/ BulkFinish

SpecValidate == InitBatch /\ [][NextValidate]_vars

\* ------------------------------------------------------------------ validation claim

\* What the specification calls an invalid listing.
InvalidListing(title, price) ==
  \/ title = NoText
  \/ title = <<>>
  \/ \A i \in 1..Len(title) : title[i] \in Whitespace
  \/ Len(title) > 500
  \/ price <= 0

\* A title as the pipeline may see it: not empty, no whitespace at its ends,
\* at most 500 characters.
CleanTitle(title) ==
  /\ title # NoText
  /\ title # <<>>
  /\ title[1] \notin Whitespace
  /\ title[Len(title)] \notin Whitespace
  /\ Len(title) <= 500

\* C22: a listing whose title is missing, empty, only whitespace or longer
\* than 500 characters, or whose asking price is not above zero, is
\* rejected before the handler runs: its request is answered 422 with no
\* cache read, parser call, store query or cache write, and a batch with
\* such an item starts no item at all. Every request the pipeline works on,
\* and every key in the cache, has a stripped title and a positive price.
C22_InvalidInputRejected ==
  [][/\ \A s \in Slots :
          reqs'[s].pc # "idle" =>
            IF reqs'[s].raised = "RequestValidationError"
            THEN /\ InvalidListing(reqs'[s].title, reqs'[s].listing_price)
                 /\ reqs'[s].pc = "done"
                 /\ reqs'[s].called = {}
                 /\ reqs'[s].cached_result = NoResponse
                 /\ reqs'[s].pricing = NoResult
                 /\ ~reqs'[s].set_ok
                 /\ reqs'[s].response = [status |-> 422]
            ELSE /\ ~InvalidListing(reqs'[s].title, reqs'[s].listing_price)
                 /\ CleanTitle(reqs'[s].title)
     /\ \A s \in Slots :
          (reqs[s].pc = "idle" /\ reqs'[s].pc = "done") =>
            cache' = cache /\ last_set' = last_set
     /\ (batch'.pc = "done" /\ batch'.response = [status |-> 422]) =>
          /\ \/ batch'.listings = <<>>
             \/ \E i \in 1..Len(batch'.listings) :
                  InvalidListing(batch'.listings[i].title,
                                 batch'.listings[i].listing_price)
          /\ \A s \in Slots : reqs'[s].pc = "idle"
          /\ batch.pc = "idle" => cache' = cache
     /\ batch'.pc = "running" =>
          \A i \in 1..Len(batch'.listings) :
            /\ ~InvalidListing(batch'.listings[i][1], batch'.listings[i][2])
            /\ CleanTitle(batch'.listings[i][1])
     /\ \A e \in cache' : \E t \in RawTitles :
          /\ t # NoText
          /\ CleanTitle(strip(t))
          /\ e.key = <<"analysis", ":", MD5(strip(t))>>
    ]_vars

\* POST /analyze with a title of whitespace only was answered 422 and
\* nothing was called, while the cache holds the entry of an earlier
\* request under the stripped form of the title it was sent.
C22_Witness ==
  /\ reqs[1].pc = "done"
  /\ reqs[1].raised = "RequestValidationError"
  /\ reqs[1].title = <<" ", "\t">>
  /\ reqs[1].listing_price = 90
  /\ reqs[1].called = {}
  /\ \E e \in cache : e.key = <<"analysis", ":", MD5(TitleExact)>>

\* The wordings of a verdict (pricing_service.py:297-306).
VerdictLabels == {InsufficientData, GoodDeal, Overpriced, FairPrice}

\* The answer of the request r is a success that carries a verdict.
AnswersVerdict(r) ==
  /\ r.kind = "analyze" => r.response.status = 200
  /\ r.kind = "bulk" => r.response.success /\ r.response.error = NoneStr
  /\ DataOf(r).verdict.text \in VerdictLabels

\* C23: a request whose title was parsed, or found in the cache, is
\* answered with a verdict whatever the store and the cache do: the only
\* requests that end in a failure are those whose parser gave up. A Tier 2
\* query that the database fails gives the result "none" with no sale and no
\* estimate, and that result is answered as a success with the
\* insufficient-data verdict.
C23_AlwaysAVerdict ==
  [][\A s \in Slots :
       /\ (reqs'[s].pc # "idle" /\ reqs'[s].raised # NoneStr) =>
            /\ reqs'[s].raised \in ParserErrors
            /\ "slugify" \notin reqs'[s].called
       /\ (reqs'[s].pc = "done" /\ reqs'[s].raised = NoneStr) =>
            AnswersVerdict(reqs'[s])
       /\ (reqs[s].pc = "tier2_exec" /\ reqs'[s].pc # "tier2_exec" /\ ~db_up) =>
            /\ reqs'[s].pc = "store"
            /\ reqs'[s].pricing.match_tier = "none"
       /\ (reqs'[s].pc = "done" /\ reqs'[s].pricing # NoResult
           /\ reqs'[s].pricing.match_tier = "none") =>
            /\ AnswersVerdict(reqs'[s])
            /\ DataOf(reqs'[s]).match_tier = "none"
            /\ DataOf(reqs'[s]).sales_count = 0
            /\ DataOf(reqs'[s]).estimated_value = NoneValue
            /\ DataOf(reqs'[s]).profit_loss = NoneValue
            /\ DataOf(reqs'[s]).verdict.text = InsufficientData
    ]_vars

\* With the database down and Redis failing, POST /analyze for a card the
\* table holds three sales of is answered 200 with the insufficient-data
\* verdict.
C23_Witness ==
  /\ reqs[1].pc = "done"
  /\ reqs[1].kind = "analyze"
  /\ reqs[1].title = TitleExact
  /\ ~db_up
  /\ redis = "error"
  /\ "matcher" \in reqs[1].called
  /\ reqs[1].response.status = 200
  /\ reqs[1].response.match_tier = "none"
  /\ reqs[1].response.verdict.text = InsufficientData

\* ------------------------------------------------------------------ the writers of the store, with any body

\* Bodies posted to POST /purchases: those with the identifiers of an
\* analysis, and two whose identifiers are the names as the client wrote
\* them (purchases.py:24-26 takes any string).
PurchaseBodies ==
  PurchaseInputs
    \cup { Row(<<"M", "J">>, <<"T">>, <<"B", "a", "s", "e">>, 2020, 10, "PSA", 95, 0),
           Row(MJ, TOPPS, <<"b", "a", "s", "e", " ">>, 2020, 10, "PSA", 105, 0) }

\* The match queries of this specification.
StoreQueries ==
  [player_id : {MJ}, brand_id : {TOPPS}, variation_id : {BASE},
   year : {NoneNum, 2020}, grade : {NoneNum}, grader : {NoneStr}]

\* Seeding, purchases with any body, and calls of the matcher.
NextStore ==
  \/ \E clear_existing \in BOOLEAN : seed_database(clear_existing)
  \/ \E purchase \in PurchaseBodies : create_purchase(purchase)
  \/ \E q \in StoreQueries : GetEstimatedValue(q)
  \/ Tier1Step
  \/ Tier2Step
  \/ Respond

SpecStore == Init /\ [][NextStore]_vars

\* ------------------------------------------------------------------ store claim

\* The identifier is what slugify makes of itself.
Normalized(id) == slugify(id) = id

\* C26: every row of sales_history, after any seeding and any purchases,
\* has a player, brand and variation identifier that slugify leaves
\* unchanged; and the rows Tier 1 returns carry the identifiers of the query
\* themselves, the stored ones being compared as they are.
C26_StoredIdsNormalized ==
  /\ \A r \in store :
       /\ Normalized(r.player_id)
       /\ Normalized(r.brand_id)
       /\ Normalized(r.variation_id)
  /\ pc # "idle" =>
       \A i \in 1..Len(t1_result) :
         /\ t1_result[i].player_id = query.player_id
         /\ t1_result[i].brand_id = query.brand_id
         /\ t1_result[i].variation_id = query.variation_id

\* ------------------------------------------------------------------ frame claim

\* The key a request for this title may write.
OwnKey(title) == <<"analysis", ":", MD5(title)>>

\* The entries by which two contents of the cache differ.
Changed(before, after) == (before \ after) \cup (after \ before)

\* C27: no step of a valuation request, single or batch item, adds, changes
\* or deletes a row of sales_history, so that a request abandoned at any
\* point has nothing to undo. The cache changes only in the one step in
\* which a request stores its result, and only under the key of the title
\* of that request; a request that has answered takes no further step.
C27_RequestWritesOnlyItsKey ==
  [][/\ (reqs' # reqs \/ batch' # batch) =>
          /\ store' = store
          /\ next_id' = next_id
          /\ purchases' = purchases
     /\ cache' # cache =>
          \E s \in Slots :
            /\ reqs[s].pc = "store"
            /\ reqs'[s].pc = "done"
            /\ \A e \in Changed(cache, cache') : e.key = OwnKey(reqs[s].title)
            /\ Cardinality(cache' \ cache) = 1
     /\ \A s \in Slots :
          reqs[s].pc = "done" => reqs'[s].pc \in {"done", "idle"}
    ]_vars

\* A batch item has stored its result: the cache holds that one entry and
\* the table the rows it held before, with the purchase recorded since.
C27_Witness ==
  /\ reqs[1].pc = "done"
  /\ reqs[1].kind = "bulk"
  /\ reqs[1].set_ok
  /\ purchases = 1
  /\ Cardinality(store) = 1 + Len(ApiSeed)
  /\ {e.key : e \in cache} = {OwnKey(reqs[1].title)}

\* ------------------------------------------------------------------ cache key claim

\* C28: the key of a request is made of the prefix "analysis", a colon and
\* the digest of its title, and of nothing else: whichever endpoint a
\* request came through, it reads the live entry under that key when Redis
\* answers, and it writes its result under that key, so that an entry
\* written through one endpoint is hit through the other. Every key in the
\* cache has that form.
C28_KeyOfPrefixAndTitle ==
  [][/\ \A s \in Slots :
          (reqs[s].pc = "lookup" /\ reqs'[s].pc # "lookup" /\ redis = "ok") =>
            \A e \in cache :
              (e.key = <<"analysis", ":", MD5(reqs[s].title)>> /\ e.expire_at > now) =>
                /\ reqs'[s].pc = "done"
                /\ reqs'[s].cached_result = json_loads(e.text)
     /\ \A s \in Slots :
          (reqs[s].pc = "store" /\ reqs'[s].pc = "done" /\ reqs'[s].set_ok) =>
            \E e \in cache' :
              /\ e.key = <<"analysis", ":", MD5(reqs[s].title)>>
              /\ e.text = json_dumps(CacheData(reqs[s]))
     /\ \A e \in cache' :
          /\ Len(e.key) = 3
          /\ e.key[1] = "analysis"
          /\ e.key[2] = ":"
          /\ \E title \in Titles : e.key[3] = MD5(title)
     /\ \A title \in Titles, other \in Titles :
          (generate_cache_key("analysis", title) = generate_cache_key("analysis", other))
            <=> (MD5(title) = MD5(other))
    ]_vars

\* A batch item was answered from the entry that is in the cache under
\* "analysis", a colon and the digest of its title, the value last stored
\* under that key.
C28_Witness ==
  /\ reqs[1].pc = "done"
  /\ reqs[1].kind = "bulk"
  /\ IsHit(reqs[1].cached_result)
  /\ \E w \in last_set :
       /\ w.key = <<"analysis", ":", MD5(reqs[1].title)>>
       /\ w.value = reqs[1].cached_result
  /\ generate_cache_key("analysis", reqs[1].title)
       = <<"analysis", ":", MD5(reqs[1].title)>>

\* ------------------------------------------------------------------ requests over the seeded table

\* The service started on the table seed_db.py filled from the data file.
InitFull ==
  /\ store = {WithId(SeedData[i], i) : i \in 1..Len(SeedData)}
  /\ next_id = 1 + Len(SeedData)
  /\ now = ClockStart
  /\ seeded = TRUE
  /\ purchases = 0
  /\ pc = "idle"
  /\ query = NoQuery
  /\ t1_result = <<>>
  /\ t1_error = FALSE
  /\ t2_called = FALSE
  /\ t2_result = <<>>
  /\ t2_error = FALSE
  /\ prices = <<>>
  /\ estimated_value = NoneValue
  /\ result = NoResult
  /\ listing_price = NoneNum
  /\ profit_loss = NoneValue
  /\ verdict = NoVerdict
  /\ cache = {}
  /\ redis = "ok"
  /\ db_up = TRUE
  /\ reqs = [s \in Slots |-> IdleReq]
  /\ batch = NoBatch
  /\ last_set = {}
  /\ raw_text = NoText
  /\ slug = NoText
  /\ retry = NoRetry

\* Both endpoints, one request at a time, with a database that can stop
\* answering and a cache that can be cleared.
NextFull ==
  \/ \E title \in Titles, price \in AskingPrices : analyze_listing(1, title, price)
  \/ \E listing \in Titles \X AskingPrices : analyze_bulk_listings(<<listing>>)
  \/ RequestStep(1)
  \/ Finish(1)
  \/ Gather
  \/ BulkFinish
  \/ DbDown
  \/ DbUp
  \/ clear_cache

SpecFull == InitFull /\ [][NextFull]_vars

\* ------------------------------------------------------------------ result claim of the handlers

\* The three fields of a result agree: no estimate, no sale and tier "none"
\* come together, and the sales are at most the limit of the queries.
Agree(d) ==
  /\ (d.estimated_value = NoneValue) <=> (d.sales_count = 0)
  /\ (d.sales_count = 0) <=> (d.match_tier = "none")
  /\ d.match_tier \in {"exact", "fuzzy", "none"}
  /\ d.sales_count >= 0
  /\ d.sales_count <= 10

\* C30: in every result get_estimated_value hands to a handler, in every
\* entry of the cache and in every successful answer, the estimate is absent
\* exactly when sales_count is 0 and exactly when match_tier is "none", and
\* sales_count lies between 0 and 10.
C30_ResultFieldsAgree ==
  /\ \A s \in Slots :
       (reqs[s].pc # "idle" /\ reqs[s].pricing # NoResult) =>
         /\ Agree(reqs[s].pricing)
         /\ reqs[s].pricing.sales_count = Len(reqs[s].pricing.sales_data)
  /\ \A e \in cache : Agree(json_loads(e.text))
  /\ \A s \in Slots : Succeeded(s) => Agree(DataOf(reqs[s]))

\* POST /analyze for a card with eleven stored sales answered with ten of
\* them, while the cache holds a "none" entry written for the other title
\* when the database was down.
C30_Witness ==
  /\ reqs[1].pc = "done"
  /\ reqs[1].kind = "analyze"
  /\ reqs[1].raised = NoneStr
  /\ reqs[1].response.sales_count = Limit
  /\ reqs[1].response.match_tier = "exact"
  /\ reqs[1].response.estimated_value # NoneValue
  /\ \E e \in cache :
       /\ json_loads(e.text).match_tier = "none"
       /\ json_loads(e.text).sales_count = 0
       /\ json_loads(e.text).estimated_value = NoneValue

====
